---- MODULE Spec2Model ----
(***************************************************************************)
(* Native element lowering of solid-jsx-oxc (crates/dom/src/element.rs)    *)
(* with the classifiers of crates/common/src/check.rs.                     *)
(*                                                                         *)
(* A Rust String is a sequence of one-character strings, so that           *)
(* format!, push_str, starts_with, contains and the escaping functions are *)
(* computed character by character.  Option<T> is a record with a `some`   *)
(* flag.  A function that mutates `result` and `context` takes and returns *)
(* the record st = [result, context, panic]; `panic` is set where the Rust *)
(* code calls expect() on an absent value, and every later step is skipped.*)
(***************************************************************************)
EXTENDS Integers, Sequences, FiniteSets, TLC

-----------------------------------------------------------------------------
(* Option and strings *)

None == [some |-> FALSE]
Some(x) == [some |-> TRUE, v |-> x]

starts_with(s, p) == Len(s) >= Len(p) /\ SubSeq(s, 1, Len(p)) = p
ends_with(s, p) == Len(s) >= Len(p) /\ SubSeq(s, Len(s) - Len(p) + 1, Len(s)) = p
contains(s, p) == \E i \in 1..(Len(s) - Len(p) + 1) : SubSeq(s, i, i + Len(p) - 1) = p

UPPER == <<"A","B","C","D","E","F","G","H","I","J","K","L","M","N","O","P","Q","R","S","T","U","V","W","X","Y","Z">>
LOWER == <<"a","b","c","d","e","f","g","h","i","j","k","l","m","n","o","p","q","r","s","t","u","v","w","x","y","z">>
DIGITS == <<"0","1","2","3","4","5","6","7","8","9">>
is_uppercase(c) == \E i \in 1..Len(UPPER) : UPPER[i] = c
to_lowercase(c) ==
    IF is_uppercase(c) THEN LOWER[CHOOSE i \in 1..Len(UPPER) : UPPER[i] = c] ELSE c
is_whitespace(c) == c \in {" ", "\n", "\t", "\r"}

RECURSIVE usize_to_string(_)
usize_to_string(n) ==
    IF n < 10 THEN <<DIGITS[n + 1]>>
    ELSE usize_to_string(n \div 10) \o <<DIGITS[(n % 10) + 1]>>

\* f64::to_string of a numeric literal held in tenths: 40 is "4", 5 is "0.5".
f64_to_string(tenths) ==
    IF tenths % 10 = 0 THEN usize_to_string(tenths \div 10)
    ELSE usize_to_string(tenths \div 10) \o <<".">> \o usize_to_string(tenths % 10)

bool_to_string(b) == IF b THEN <<"t","r","u","e">> ELSE <<"f","a","l","s","e">>

RECURSIVE join(_, _)
join(parts, sep) ==
    IF parts = <<>> THEN <<>>
    ELSE IF Len(parts) = 1 THEN parts[1]
    ELSE parts[1] \o sep \o join(Tail(parts), sep)

-----------------------------------------------------------------------------
(* common: expression.rs and constants.rs are outside the sources at hand; *)
(* these follow the interface the specification gives.                     *)

VOID_ELEMENTS == {<<"b","r">>, <<"h","r">>, <<"i","m","g">>, <<"i","n","p","u","t">>}
SVG_ELEMENTS == {<<"s","v","g">>, <<"p","a","t","h">>, <<"c","i","r","c","l","e">>}
DELEGATED_EVENTS == {<<"c","l","i","c","k">>, <<"i","n","p","u","t">>, <<"k","e","y","d","o","w","n">>}
ALIASES == [k \in {<<"c","l","a","s","s","N","a","m","e">>, <<"h","t","m","l","F","o","r">>} |->
              IF k = <<"c","l","a","s","s","N","a","m","e">> THEN <<"c","l","a","s","s">> ELSE <<"f","o","r">>]

\* escape_html(s, for_attribute): & always; < in text; " and < in an attribute.
RECURSIVE escape_html(_, _)
escape_html(s, attr) ==
    IF s = <<>> THEN <<>>
    ELSE LET c == Head(s)
             e == IF c = "&" THEN <<"&","a","m","p",";">>
                  ELSE IF c = "<" THEN <<"&","l","t",";">>
                  ELSE IF c = "\"" /\ attr THEN <<"&","q","u","o","t",";">>
                  ELSE <<c>>
         IN e \o escape_html(Tail(s), attr)

\* trim_whitespace: whitespace-only text is dropped, otherwise every run of
\* whitespace collapses to one space.
RECURSIVE collapse_whitespace(_, _)
collapse_whitespace(s, in_run) ==
    IF s = <<>> THEN <<>>
    ELSE IF is_whitespace(Head(s))
         THEN (IF in_run THEN <<>> ELSE <<" ">>) \o collapse_whitespace(Tail(s), TRUE)
         ELSE <<Head(s)>> \o collapse_whitespace(Tail(s), FALSE)

trim_whitespace(s) ==
    IF \A i \in 1..Len(s) : is_whitespace(s[i]) THEN <<>>
    ELSE collapse_whitespace(s, FALSE)

\* to_event_name: strips the leading `on` (or `on:`) and lowercases.
to_event_name(key) ==
    LET rest == IF starts_with(key, <<"o","n",":">>) THEN SubSeq(key, 4, Len(key))
                ELSE IF starts_with(key, <<"o","n">>) THEN SubSeq(key, 3, Len(key))
                ELSE key
    IN [i \in 1..Len(rest) |-> to_lowercase(rest[i])]

\* expr_to_string: the source text of an expression.
RECURSIVE expr_to_string(_)
RECURSIVE props_to_strings(_)
RECURSIVE exprs_to_strings(_)
props_to_strings(props) ==
    IF props = <<>> THEN <<>>
    ELSE LET p == Head(props)
             one == IF p.kind = "SpreadProperty" THEN <<".",".",".">> \o expr_to_string(p.argument)
                    ELSE (IF p.computed THEN <<"[">> \o expr_to_string(p.key) \o <<"]">>
                          ELSE IF p.key.kind = "StaticIdentifier" THEN p.key.name
                          ELSE expr_to_string(p.key))
                         \o <<":"," ">> \o expr_to_string(p.value)
         IN <<one>> \o props_to_strings(Tail(props))
exprs_to_strings(es) ==
    IF es = <<>> THEN <<>> ELSE <<expr_to_string(Head(es))>> \o exprs_to_strings(Tail(es))
expr_to_string(e) ==
    CASE e.kind = "StringLiteral" -> <<"\"">> \o e.value \o <<"\"">>
      [] e.kind = "NumericLiteral" -> f64_to_string(e.num)
      [] e.kind = "BooleanLiteral" -> bool_to_string(e.bool)
      [] e.kind = "NullLiteral" -> <<"n","u","l","l">>
      [] e.kind = "TemplateLiteral" -> e.raw
      [] e.kind = "Identifier" -> e.name
      [] e.kind = "CallExpression" ->
            expr_to_string(e.callee) \o <<"(">> \o join(exprs_to_strings(e.arguments), <<","," ">>) \o <<")">>
      [] e.kind = "StaticMemberExpression" -> expr_to_string(e.object) \o <<".">> \o e.property
      [] e.kind = "ComputedMemberExpression" ->
            expr_to_string(e.object) \o <<"[">> \o expr_to_string(e.expression) \o <<"]">>
      [] e.kind = "ConditionalExpression" ->
            expr_to_string(e.test) \o <<" ","?"," ">> \o expr_to_string(e.consequent)
                \o <<" ",":"," ">> \o expr_to_string(e.alternate)
      [] e.kind = "LogicalExpression" ->
            expr_to_string(e.left) \o <<" ">> \o e.operator \o <<" ">> \o expr_to_string(e.right)
      [] e.kind = "BinaryExpression" ->
            expr_to_string(e.left) \o <<" ">> \o e.operator \o <<" ">> \o expr_to_string(e.right)
      [] e.kind = "UnaryExpression" -> e.operator \o expr_to_string(e.argument)
      [] e.kind = "ArrowFunctionExpression" ->
            <<"(">> \o join(e.params, <<","," ">>) \o <<")"," ","=",">"," ">> \o expr_to_string(e.body)
      [] e.kind = "FunctionExpression" ->
            <<"f","u","n","c","t","i","o","n","(">> \o join(e.params, <<","," ">>) \o <<")"," ","{"," ","r","e","t","u","r","n"," ">>
                \o expr_to_string(e.body) \o <<";"," ","}">>
      [] e.kind = "ObjectExpression" ->
            IF e.properties = <<>> THEN <<"{","}">>
            ELSE <<"{"," ">> \o join(props_to_strings(e.properties), <<","," ">>) \o <<" ","}">>
      [] e.kind = "ArrayExpression" ->
            <<"[">> \o join(exprs_to_strings(e.elements), <<","," ">>) \o <<"]">>
      [] OTHER -> <<"t","h","i","s">>

\* JSXExpression::as_expression: absent for the empty expression `{}`.
as_expression(e) == IF e.kind = "EmptyExpression" THEN None ELSE Some(e)

-----------------------------------------------------------------------------
(* common/src/check.rs *)

is_component(tag) ==
    IF tag = <<>> THEN FALSE
    ELSE is_uppercase(tag[1]) \/ contains(tag, <<".">>)

is_svg_element(tag) == tag \in SVG_ELEMENTS

RECURSIVE get_member_expression_name(_)
get_member_expression_name(member) ==
    LET object == CASE member.object.kind = "IdentifierReference" -> member.object.name
                    [] member.object.kind = "MemberExpression" ->
                          get_member_expression_name(member.object)
                    [] OTHER -> <<"t","h","i","s">>
    IN object \o <<".">> \o member.property

get_jsx_element_name(name) ==
    CASE name.kind = "Identifier" -> name.name
      [] name.kind = "IdentifierReference" -> name.name
      [] name.kind = "NamespacedName" -> name.namespace \o <<":">> \o name.name
      [] name.kind = "MemberExpression" -> get_member_expression_name(name)
      [] OTHER -> <<"t","h","i","s">>

get_tag_name(element) == get_jsx_element_name(element.name)

RECURSIVE is_dynamic(_)
is_dynamic(expr) ==
    CASE expr.kind \in {"StringLiteral", "NumericLiteral", "BooleanLiteral", "NullLiteral"} -> FALSE
      [] expr.kind = "TemplateLiteral" /\ expr.expressions = <<>> -> FALSE
      [] expr.kind = "CallExpression" -> TRUE
      [] expr.kind \in {"StaticMemberExpression", "ComputedMemberExpression"} -> TRUE
      [] expr.kind = "Identifier" -> TRUE
      [] expr.kind \in {"ConditionalExpression", "LogicalExpression"} -> TRUE
      [] expr.kind = "BinaryExpression" -> is_dynamic(expr.left) \/ is_dynamic(expr.right)
      [] expr.kind = "UnaryExpression" -> is_dynamic(expr.argument)
      [] expr.kind \in {"ArrowFunctionExpression", "FunctionExpression"} -> FALSE
      [] expr.kind = "ObjectExpression" ->
            \E i \in 1..Len(expr.properties) :
                LET p == expr.properties[i]
                IN IF p.kind = "ObjectProperty" THEN is_dynamic(p.value)
                   ELSE is_dynamic(p.argument)
      [] expr.kind = "ArrayExpression" ->
            \E i \in 1..Len(expr.elements) :
                LET el == expr.elements[i]
                IN CASE el.kind = "SpreadElement" -> is_dynamic(el.argument)
                     [] el.kind = "Elision" -> FALSE
                     [] OTHER -> is_dynamic(el)
      [] OTHER -> TRUE

get_attr_name(name) ==
    IF name.kind = "Identifier" THEN name.name
    ELSE name.namespace \o <<":">> \o name.name

is_namespaced_attr(name) == name.kind = "NamespacedName"

-----------------------------------------------------------------------------
(* dom: ir.rs (BlockContext, TransformResult) and transform.rs            *)
(* (TransformInfo) are outside the sources at hand; the records follow the *)
(* specification's data model and the fields element.rs reads and writes.  *)

\* BlockContext::new: no uid issued, no helper, no delegated event.
NewBlockContext == [uid |-> 0, helpers |-> {}, delegates |-> {}]

\* BlockContext::generate_uid: el$, el$2, el$3, ...
generate_uid(context, prefix) ==
    [name |-> IF context.uid = 0 THEN prefix
              ELSE prefix \o usize_to_string(context.uid + 1),
     context |-> [context EXCEPT !.uid = @ + 1]]

register_helper(context, name) == [context EXCEPT !.helpers = @ \cup {name}]
register_delegate(context, event) == [context EXCEPT !.delegates = @ \cup {event}]

\* TransformResult { tag_name, is_svg, has_custom_element, ..Default::default() }
NewTransformResult(tag_name, is_svg, is_custom_element) ==
    [tag_name |-> Some(tag_name),
     is_svg |-> is_svg,
     has_custom_element |-> is_custom_element,
     id |-> None,
     template |-> <<>>,
     template_with_closing_tags |-> <<>>,
     declarations |-> <<>>,
     exprs |-> <<>>,
     dynamics |-> <<>>]

Declaration(name, init) == [name |-> name, init |-> init]
Expr(code) == [code |-> code]
DynamicBinding(elem, key, value, result) ==
    [elem |-> elem, key |-> key, value |-> value,
     is_svg |-> result.is_svg,
     is_ce |-> result.has_custom_element,
     tag_name |-> IF result.tag_name.some THEN result.tag_name.v ELSE <<>>]

TransformInfo(root_id, path, top_level, skip_id) ==
    [root_id |-> root_id, path |-> path, top_level |-> top_level, skip_id |-> skip_id]

\* Option::expect on an absent value: the transform aborts with this message.
Panic(st, msg) == [st EXCEPT !.panic = msg]

push_expr(st, code) == [st EXCEPT !.result.exprs = Append(@, Expr(code))]
push_template(st, s) == [st EXCEPT !.result.template = @ \o s]

-----------------------------------------------------------------------------
(* dom/src/element.rs: attributes *)

transform_ref(attr, elem_id, st) ==
    IF attr.value.some /\ attr.value.v.kind = "ExpressionContainer"
       /\ as_expression(attr.value.v.expression).some
    THEN LET ref_expr == expr_to_string(attr.value.v.expression)
         IN IF contains(ref_expr, <<"=",">">>) \/ starts_with(ref_expr, <<"f","u","n","c","t","i","o","n">>)
            THEN push_expr(st, <<"(">> \o ref_expr \o <<")","(">> \o elem_id \o <<")">>)
            ELSE push_expr(st, <<"t","y","p","e","o","f"," ">> \o ref_expr \o <<" ","=","=","="," ","\"","f","u","n","c","t","i","o","n","\""," ","?"," ">>
                                 \o ref_expr \o <<"(">> \o elem_id \o <<")"," ",":"," ">>
                                 \o ref_expr \o <<" ","="," ">> \o elem_id)
    ELSE st

handler_of(attr) ==
    IF attr.value.some /\ attr.value.v.kind = "ExpressionContainer"
    THEN (IF as_expression(attr.value.v.expression).some
          THEN expr_to_string(attr.value.v.expression)
          ELSE <<"u","n","d","e","f","i","n","e","d">>)
    ELSE <<"u","n","d","e","f","i","n","e","d">>

\* should_delegate, but a Capture key may be delegated.
should_delegate_despite_capture(key, event_name, is_capture, options) ==
    /\ ~starts_with(key, <<"o","n",":">>)
    /\ options.delegate_events
    /\ (event_name \in DELEGATED_EVENTS \/ event_name \in options.delegated_events)

should_delegate(key, event_name, is_capture, options) ==
    /\ ~starts_with(key, <<"o","n",":">>)
    /\ ~is_capture
    /\ options.delegate_events
    /\ (event_name \in DELEGATED_EVENTS \/ event_name \in options.delegated_events)

transform_event(attr, key, elem_id, st, options) ==
    LET is_capture == ends_with(key, <<"C","a","p","t","u","r","e">>)
        base_key == IF is_capture THEN SubSeq(key, 1, Len(key) - 7) ELSE key
        event_name == to_event_name(base_key)
        handler == handler_of(attr)
    IN IF should_delegate(key, event_name, is_capture, options)
       THEN push_expr([st EXCEPT !.context = register_delegate(@, event_name)],
                      elem_id \o <<".","$","$">> \o event_name \o <<" ","="," ">> \o handler)
       ELSE push_expr([st EXCEPT !.context = register_helper(@, <<"a","d","d","E","v","e","n","t","L","i","s","t","e","n","e","r">>)],
                      <<"a","d","d","E","v","e","n","t","L","i","s","t","e","n","e","r","(">> \o elem_id \o <<","," ","\"">> \o event_name \o <<"\"",","," ">>
                          \o handler \o <<","," ">> \o bool_to_string(is_capture) \o <<")">>)

transform_directive(attr, key, elem_id, st) ==
    LET directive_name == SubSeq(key, 5, Len(key))
        value == IF attr.value.some /\ attr.value.v.kind = "ExpressionContainer"
                 THEN (IF as_expression(attr.value.v.expression).some
                       THEN <<"(",")"," ","=",">"," ">> \o expr_to_string(attr.value.v.expression)
                       ELSE <<"u","n","d","e","f","i","n","e","d">>)
                 ELSE <<"u","n","d","e","f","i","n","e","d">>
    IN push_expr([st EXCEPT !.context = register_helper(@, <<"u","s","e">>)],
                 <<"u","s","e","(">> \o directive_name \o <<","," ">> \o elem_id \o <<","," ">> \o value \o <<")">>)

transform_prop(attr, key, elem_id, st) ==
    LET prop_name == SubSeq(key, 6, Len(key))
    IN IF attr.value.some /\ attr.value.v.kind = "ExpressionContainer"
          /\ as_expression(attr.value.v.expression).some
       THEN LET expr == attr.value.v.expression
                expr_str == expr_to_string(expr)
            IN IF is_dynamic(expr)
               THEN push_expr([st EXCEPT !.context = register_helper(@, <<"e","f","f","e","c","t">>)],
                              <<"e","f","f","e","c","t","(","(",")"," ","=",">"," ">> \o elem_id \o <<".">> \o prop_name \o <<" ","="," ">>
                                  \o expr_str \o <<")">>)
               ELSE push_expr(st, elem_id \o <<".">> \o prop_name \o <<" ","="," ">> \o expr_str)
       ELSE st

transform_attr(attr, key, elem_id, st) ==
    LET attr_name == SubSeq(key, 6, Len(key))
    IN IF attr.value.some /\ attr.value.v.kind = "ExpressionContainer"
       THEN (IF as_expression(attr.value.v.expression).some
             THEN push_expr([st EXCEPT !.context =
                                register_helper(register_helper(@, <<"e","f","f","e","c","t">>), <<"s","e","t","A","t","t","r","i","b","u","t","e">>)],
                            <<"e","f","f","e","c","t","(","(",")"," ","=",">"," ">> \o elem_id \o <<".","s","e","t","A","t","t","r","i","b","u","t","e","(","\"">> \o attr_name
                                \o <<"\"",","," ">> \o expr_to_string(attr.value.v.expression) \o <<")",")">>)
             ELSE st)
       ELSE IF attr.value.some /\ attr.value.v.kind = "StringLiteral"
       THEN push_template(st, <<" ">> \o attr_name \o <<"=","\"">>
                                  \o escape_html(attr.value.v.value, TRUE) \o <<"\"">>)
       ELSE st

camel_to_kebab(s) ==
    LET piece(i) == IF is_uppercase(s[i])
                    THEN (IF i > 1 THEN <<"-">> ELSE <<>>) \o <<to_lowercase(s[i])>>
                    ELSE <<s[i]>>
    IN join([i \in 1..Len(s) |-> piece(i)], <<>>)

unitless ==
    {<<"a","n","i","m","a","t","i","o","n","-","i","t","e","r","a","t","i","o","n","-","c","o","u","n","t">>, <<"b","o","r","d","e","r","-","i","m","a","g","e","-","o","u","t","s","e","t">>, <<"b","o","r","d","e","r","-","i","m","a","g","e","-","s","l","i","c","e">>,
     <<"b","o","r","d","e","r","-","i","m","a","g","e","-","w","i","d","t","h">>, <<"b","o","x","-","f","l","e","x">>, <<"b","o","x","-","f","l","e","x","-","g","r","o","u","p">>, <<"b","o","x","-","o","r","d","i","n","a","l","-","g","r","o","u","p">>,
     <<"c","o","l","u","m","n","-","c","o","u","n","t">>, <<"c","o","l","u","m","n","s">>, <<"f","l","e","x">>, <<"f","l","e","x","-","g","r","o","w">>, <<"f","l","e","x","-","p","o","s","i","t","i","v","e">>,
     <<"f","l","e","x","-","s","h","r","i","n","k">>, <<"f","l","e","x","-","n","e","g","a","t","i","v","e">>, <<"f","l","e","x","-","o","r","d","e","r">>, <<"g","r","i","d","-","r","o","w">>, <<"g","r","i","d","-","r","o","w","-","e","n","d">>,
     <<"g","r","i","d","-","r","o","w","-","s","p","a","n">>, <<"g","r","i","d","-","r","o","w","-","s","t","a","r","t">>, <<"g","r","i","d","-","c","o","l","u","m","n">>, <<"g","r","i","d","-","c","o","l","u","m","n","-","e","n","d">>,
     <<"g","r","i","d","-","c","o","l","u","m","n","-","s","p","a","n">>, <<"g","r","i","d","-","c","o","l","u","m","n","-","s","t","a","r","t">>, <<"f","o","n","t","-","w","e","i","g","h","t">>, <<"l","i","n","e","-","c","l","a","m","p">>,
     <<"l","i","n","e","-","h","e","i","g","h","t">>, <<"o","p","a","c","i","t","y">>, <<"o","r","d","e","r">>, <<"o","r","p","h","a","n","s">>, <<"t","a","b","-","s","i","z","e">>, <<"w","i","d","o","w","s">>,
     <<"z","-","i","n","d","e","x">>, <<"z","o","o","m">>, <<"f","i","l","l","-","o","p","a","c","i","t","y">>, <<"f","l","o","o","d","-","o","p","a","c","i","t","y">>, <<"s","t","o","p","-","o","p","a","c","i","t","y">>,
     <<"s","t","r","o","k","e","-","d","a","s","h","a","r","r","a","y">>, <<"s","t","r","o","k","e","-","d","a","s","h","o","f","f","s","e","t">>, <<"s","t","r","o","k","e","-","m","i","t","e","r","l","i","m","i","t">>,
     <<"s","t","r","o","k","e","-","o","p","a","c","i","t","y">>, <<"s","t","r","o","k","e","-","w","i","d","t","h">>}

needs_px_suffix(prop) == prop \notin unitless

\* The loop of object_to_style_string over the remaining properties, `styles`
\* being the pairs collected so far.
RECURSIVE style_pairs(_, _)
style_pairs(props, styles) ==
    IF props = <<>> THEN Some(join(styles, <<";"," ">>))
    ELSE LET prop == Head(props)
         IN IF prop.kind # "ObjectProperty" THEN None
            ELSE IF prop.key.kind \notin {"StaticIdentifier", "StringLiteral"} THEN None
            ELSE IF prop.value.kind \notin {"StringLiteral", "NumericLiteral"} THEN None
            ELSE LET key == IF prop.key.kind = "StaticIdentifier"
                            THEN camel_to_kebab(prop.key.name)
                            ELSE prop.key.value
                     value == IF prop.value.kind = "StringLiteral" THEN prop.value.value
                              ELSE LET num_str == f64_to_string(prop.value.num)
                                   IN IF needs_px_suffix(key) /\ prop.value.num # 0
                                      THEN num_str \o <<"p","x">>
                                      ELSE num_str
                 IN style_pairs(Tail(props), Append(styles, key \o <<":"," ">> \o value))

object_to_style_string(obj) == style_pairs(obj.properties, <<>>)

transform_style(attr, elem_id, st) ==
    IF attr.value.some /\ attr.value.v.kind = "StringLiteral"
    THEN push_template(st, <<" ","s","t","y","l","e","=","\"">> \o escape_html(attr.value.v.value, TRUE) \o <<"\"">>)
    ELSE IF attr.value.some /\ attr.value.v.kind = "ExpressionContainer"
            /\ as_expression(attr.value.v.expression).some
    THEN LET expr == attr.value.v.expression
             expr_str == expr_to_string(expr)
             style_str == IF expr.kind = "ObjectExpression"
                          THEN object_to_style_string(expr) ELSE None
         IN IF style_str.some
            THEN push_template(st, <<" ","s","t","y","l","e","=","\"">> \o style_str.v \o <<"\"">>)
            ELSE IF ~elem_id.some THEN Panic(st, "style helper requires an element id")
            ELSE LET s1 == [st EXCEPT !.context = register_helper(@, <<"s","t","y","l","e">>)]
                 IN IF is_dynamic(expr)
                    THEN push_expr([s1 EXCEPT !.context = register_helper(@, <<"e","f","f","e","c","t">>)],
                                   <<"e","f","f","e","c","t","(","(",")"," ","=",">"," ","s","t","y","l","e","(">> \o elem_id.v \o <<","," ">>
                                       \o expr_str \o <<")",")">>)
                    ELSE push_expr(s1, <<"s","t","y","l","e","(">> \o elem_id.v \o <<","," ">> \o expr_str \o <<")">>)
    ELSE st

transform_inner_content(attr, key, elem_id, st) ==
    IF attr.value.some /\ attr.value.v.kind = "ExpressionContainer"
    THEN (IF as_expression(attr.value.v.expression).some
          THEN LET expr == attr.value.v.expression
                   expr_str == expr_to_string(expr)
               IN IF is_dynamic(expr)
                  THEN push_expr([st EXCEPT !.context = register_helper(@, <<"e","f","f","e","c","t">>)],
                                 <<"e","f","f","e","c","t","(","(",")"," ","=",">"," ">> \o elem_id \o <<".">> \o key \o <<" ","="," ">>
                                     \o expr_str \o <<")">>)
                  ELSE push_expr(st, elem_id \o <<".">> \o key \o <<" ","="," ">> \o expr_str)
          ELSE st)
    ELSE IF attr.value.some /\ attr.value.v.kind = "StringLiteral"
    THEN (IF key = <<"i","n","n","e","r","H","T","M","L">>
          THEN push_expr(st, elem_id \o <<".","i","n","n","e","r","H","T","M","L"," ","="," ","\"">>
                                 \o escape_html(attr.value.v.value, FALSE) \o <<"\"">>)
          ELSE st)
    ELSE st

\* The `Regular attribute` match of transform_attribute.
regular_attribute(attr, key, elem_id, st) ==
    IF attr.value.some /\ attr.value.v.kind = "StringLiteral"
    THEN LET attr_key == IF key \in DOMAIN ALIASES THEN ALIASES[key] ELSE key
             escaped == escape_html(attr.value.v.value, TRUE)
         IN push_template(st, <<" ">> \o attr_key \o <<"=","\"">> \o escaped \o <<"\"">>)
    ELSE IF attr.value.some /\ attr.value.v.kind = "ExpressionContainer"
    THEN (IF as_expression(attr.value.v.expression).some
          THEN LET expr == attr.value.v.expression
                   expr_str == expr_to_string(expr)
               IN IF is_dynamic(expr)
                  THEN (IF ~elem_id.some
                        THEN Panic(st, "dynamic attributes require an element id")
                        ELSE [st EXCEPT !.result.dynamics =
                                 Append(@, DynamicBinding(elem_id.v, key, expr_str, st.result))])
                  ELSE (IF ~elem_id.some
                        THEN Panic(st, "expression attributes require an element id")
                        ELSE [st EXCEPT !.result.dynamics =
                                 Append(@, DynamicBinding(elem_id.v, key, expr_str, st.result))])
          ELSE st)
    ELSE IF ~attr.value.some
    THEN push_template(st, <<" ">> \o key)
    ELSE st

transform_attribute(attr, elem_id, st, options) ==
    LET key == get_attr_name(attr.name)
    IN IF key = <<"r","e","f">>
       THEN (IF ~elem_id.some THEN Panic(st, "ref requires an element id")
             ELSE transform_ref(attr, elem_id.v, st))
       ELSE IF starts_with(key, <<"o","n">>)
       THEN (IF ~elem_id.some THEN Panic(st, "event handlers require an element id")
             ELSE transform_event(attr, key, elem_id.v, st, options))
       ELSE IF starts_with(key, <<"u","s","e",":">>)
       THEN (IF ~elem_id.some THEN Panic(st, "directives require an element id")
             ELSE transform_directive(attr, key, elem_id.v, st))
       ELSE IF starts_with(key, <<"p","r","o","p",":">>)
       THEN (IF ~elem_id.some THEN Panic(st, "prop: requires an element id")
             ELSE transform_prop(attr, key, elem_id.v, st))
       ELSE IF starts_with(key, <<"a","t","t","r",":">>)
       THEN (IF ~elem_id.some THEN Panic(st, "attr: requires an element id")
             ELSE transform_attr(attr, key, elem_id.v, st))
       ELSE IF key = <<"s","t","y","l","e">>
       THEN transform_style(attr, elem_id, st)
       ELSE IF key = <<"i","n","n","e","r","H","T","M","L">> \/ key = <<"t","e","x","t","C","o","n","t","e","n","t">>
       THEN (IF ~elem_id.some THEN Panic(st, "inner content requires an element id")
             ELSE transform_inner_content(attr, key, elem_id.v, st))
       ELSE regular_attribute(attr, key, elem_id, st)

transform_spread(element, spread, elem_id, st) ==
    IF ~elem_id.some THEN Panic(st, "Spread attributes require an element id")
    ELSE push_expr([st EXCEPT !.context = register_helper(@, <<"s","p","r","e","a","d">>)],
                   <<"s","p","r","e","a","d","(">> \o elem_id.v \o <<","," ">> \o expr_to_string(spread.argument)
                       \o <<","," ">> \o bool_to_string(st.result.is_svg)
                       \o <<","," ">> \o bool_to_string(element.children # <<>>) \o <<")">>)

\* The loop of transform_attributes from attribute i on; a panic ends it.
RECURSIVE attributes_from(_, _, _, _, _)
attributes_from(element, i, elem_id, st, options) ==
    IF i > Len(element.attributes) \/ st.panic # "" THEN st
    ELSE LET attr == element.attributes[i]
             s1 == IF attr.kind = "Attribute"
                   THEN transform_attribute(attr, elem_id, st, options)
                   ELSE transform_spread(element, attr, elem_id, st)
         IN attributes_from(element, i + 1, elem_id, s1, options)

transform_attributes(element, st, options) ==
    attributes_from(element, 1, st.result.id, st, options)

-----------------------------------------------------------------------------
(* dom/src/element.rs: the element and its children *)

RECURSIVE children_need_runtime_access(_)
children_need_runtime_access(children) ==
    \E i \in 1..Len(children) :
        LET child == children[i]
        IN CASE child.kind = "Element" -> is_component(get_tag_name(child))
             [] child.kind = "ExpressionContainer" -> TRUE
             [] child.kind = "Fragment" -> children_need_runtime_access(child.children)
             [] OTHER -> FALSE

attribute_needs_runtime_access(attr) ==
    IF attr.kind = "Attribute"
    THEN LET key == get_attr_name(attr.name)
         IN \/ is_namespaced_attr(attr.name)
            \/ key \in {<<"r","e","f">>, <<"i","n","n","e","r","H","T","M","L">>, <<"t","e","x","t","C","o","n","t","e","n","t">>, <<"i","n","n","e","r","T","e","x","t">>}
            \/ (starts_with(key, <<"o","n">>) /\ Len(key) > 2)
            \/ (attr.value.some /\ attr.value.v.kind = "ExpressionContainer")
    ELSE TRUE

element_needs_runtime_access(element) ==
    \/ \E i \in 1..Len(element.attributes) :
           attribute_needs_runtime_access(element.attributes[i])
    \/ children_need_runtime_access(element.children)

\* The ChildTransformer callback, a stub keyed by the component's tag: N lowers
\* to nothing, E to a result without expressions, M to a result with two
\* expressions, any other component to a result with one.
transform_child(child) ==
    LET tag == get_tag_name(child)
        call == <<"c","r","e","a","t","e","C","o","m","p","o","n","e","n","t","(">> \o tag \o <<","," ","{","}",")">>
        res == NewTransformResult(tag, FALSE, FALSE)
    IN IF starts_with(tag, <<"N">>) THEN None
       ELSE IF starts_with(tag, <<"E">>) THEN Some(res)
       ELSE IF starts_with(tag, <<"M">>)
       THEN Some([res EXCEPT !.exprs = <<Expr(call), Expr(<<"s","e","c","o","n","d","(",")">>)>>])
       ELSE Some([res EXCEPT !.exprs = <<Expr(call)>>])

RECURSIVE child_path(_, _)
child_path(base, node_index) ==
    IF node_index = 0 THEN Append(base, <<"f","i","r","s","t","C","h","i","l","d">>)
    ELSE Append(child_path(base, node_index - 1), <<"n","e","x","t","S","i","b","l","i","n","g">>)

RECURSIVE child_accessor(_, _)
child_accessor(parent_id, node_index) ==
    IF node_index = 0 THEN parent_id \o <<".","f","i","r","s","t","C","h","i","l","d">>
    ELSE child_accessor(parent_id, node_index - 1) \o <<".","n","e","x","t","S","i","b","l","i","n","g">>

\* The counters of is_single_dynamic_child after the loop over `children`.
RECURSIVE is_single_dynamic_child(_)
\* single_dynamic_count, but a component element counts as an expression.
RECURSIVE single_dynamic_count_with_components(_, _)
single_dynamic_count_with_components(children, acc) ==
    IF children = <<>> THEN acc
    ELSE LET child == Head(children)
             next ==
               CASE child.kind = "Text" ->
                      IF trim_whitespace(child.value) # <<>>
                      THEN [acc EXCEPT !.other_content = TRUE] ELSE acc
                 [] child.kind = "Element" ->
                      IF is_component(get_tag_name(child))
                      THEN [acc EXCEPT !.expr_count = @ + 1]
                      ELSE [acc EXCEPT !.other_content = TRUE]
                 [] child.kind = "ExpressionContainer" ->
                      IF as_expression(child.expression).some
                      THEN [acc EXCEPT !.expr_count = @ + 1] ELSE acc
                 [] child.kind = "Fragment" ->
                      IF ~is_single_dynamic_child(child.children)
                      THEN [acc EXCEPT !.other_content = TRUE]
                      ELSE [acc EXCEPT !.expr_count = @ + 1]
                 [] OTHER -> acc
         IN single_dynamic_count_with_components(Tail(children), next)

RECURSIVE single_dynamic_count(_, _)
single_dynamic_count(children, acc) ==
    IF children = <<>> THEN acc
    ELSE LET child == Head(children)
             next ==
               CASE child.kind = "Text" ->
                      IF trim_whitespace(child.value) # <<>>
                      THEN [acc EXCEPT !.other_content = TRUE] ELSE acc
                 [] child.kind = "Element" -> [acc EXCEPT !.other_content = TRUE]
                 [] child.kind = "ExpressionContainer" ->
                      IF as_expression(child.expression).some
                      THEN [acc EXCEPT !.expr_count = @ + 1] ELSE acc
                 [] child.kind = "Fragment" ->
                      IF ~is_single_dynamic_child(child.children)
                      THEN [acc EXCEPT !.other_content = TRUE]
                      ELSE [acc EXCEPT !.expr_count = @ + 1]
                 [] OTHER -> acc
         IN single_dynamic_count(Tail(children), next)

is_single_dynamic_child(children) ==
    LET acc == single_dynamic_count(children, [expr_count |-> 0, other_content |-> FALSE])
    IN acc.expr_count = 1 /\ ~acc.other_content

\* `<!>`, a marker declaration and the three-argument insert; or, for a single
\* dynamic child, the two-argument insert alone.
insert_child(w, parent_id, value, single_dynamic) ==
    IF single_dynamic
    THEN push_expr(w, <<"i","n","s","e","r","t","(">> \o parent_id \o <<","," ">> \o value \o <<")">>)
    ELSE LET uid == generate_uid(w.context, <<"e","l","$">>)
             marker_id == uid.name
             w1 == [w EXCEPT !.result.template = @ \o <<"<","!",">">>,
                             !.result.template_with_closing_tags = @ \o <<"<","!",">">>,
                             !.context = uid.context,
                             !.result.declarations =
                                 Append(@, Declaration(marker_id,
                                                       child_accessor(parent_id, w.node_index)))]
             w2 == push_expr(w1, <<"i","n","s","e","r","t","(">> \o parent_id \o <<","," ">> \o value \o <<","," ">>
                                     \o marker_id \o <<")">>)
         IN [w2 EXCEPT !.node_index = @ + 1]

\* text_child, but blank text ends the run of text it stands in.
text_child_blank_ends_run(child, w) ==
    LET content == trim_whitespace(child.value)
    IN IF content # <<>>
       THEN LET escaped == escape_html(content, FALSE)
                w1 == [w EXCEPT !.result.template = @ \o escaped,
                                !.result.template_with_closing_tags = @ \o escaped]
            IN IF ~w.last_was_text
               THEN [w1 EXCEPT !.node_index = @ + 1, !.last_was_text = TRUE]
               ELSE w1
       ELSE [w EXCEPT !.last_was_text = FALSE]

text_child(child, w) ==
    LET content == trim_whitespace(child.value)
    IN IF content # <<>>
       THEN LET escaped == escape_html(content, FALSE)
                w1 == [w EXCEPT !.result.template = @ \o escaped,
                                !.result.template_with_closing_tags = @ \o escaped]
            IN IF ~w.last_was_text
               THEN [w1 EXCEPT !.node_index = @ + 1, !.last_was_text = TRUE]
               ELSE w1
       ELSE w

\* component_child, but `insert` is registered before the result is looked at.
component_child_registers_early(child, w, single_dynamic) ==
    LET w1 == [w EXCEPT !.last_was_text = FALSE]
        child_result == transform_child(child)
    IN IF w.result.id.some /\ child_result.some
       THEN (IF child_result.v.exprs = <<>>
             THEN [w1 EXCEPT !.context = register_helper(@, <<"i","n","s","e","r","t">>)]
             ELSE insert_child([w1 EXCEPT !.context = register_helper(@, <<"i","n","s","e","r","t">>)],
                               w.result.id.v, child_result.v.exprs[1].code, single_dynamic))
       ELSE w1

component_child(child, w, single_dynamic) ==
    LET w1 == [w EXCEPT !.last_was_text = FALSE]
        child_result == transform_child(child)
    IN IF w.result.id.some /\ child_result.some
       THEN (IF child_result.v.exprs = <<>> THEN w1
             ELSE insert_child([w1 EXCEPT !.context = register_helper(@, <<"i","n","s","e","r","t">>)],
                               w.result.id.v, child_result.v.exprs[1].code, single_dynamic))
       ELSE w1

expression_child(child, w, single_dynamic) ==
    IF w.result.id.some /\ as_expression(child.expression).some
    THEN LET expr == child.expression
             expr_str == expr_to_string(expr)
             insert_value == IF is_dynamic(expr) THEN <<"(",")"," ","=",">"," ">> \o expr_str ELSE expr_str
         IN insert_child([w EXCEPT !.last_was_text = FALSE,
                                   !.context = register_helper(@, <<"i","n","s","e","r","t">>)],
                         w.result.id.v, insert_value, single_dynamic)
    ELSE w

\* The id of the element and, below a root, its declaration; `<tag`.
start_element(tag_name, info, context, needs_runtime_access) ==
    LET r0 == NewTransformResult(tag_name, is_svg_element(tag_name), contains(tag_name, <<"-">>))
        issue == ~info.skip_id /\ (info.top_level \/ needs_runtime_access)
        uid == generate_uid(context, <<"e","l","$">>)
        r1 == IF ~issue THEN r0
              ELSE IF info.path # <<>> /\ info.root_id.some
              THEN [r0 EXCEPT !.id = Some(uid.name),
                              !.declarations =
                                  <<Declaration(uid.name,
                                                join(<<info.root_id.v>> \o info.path, <<".">>))>>]
              ELSE [r0 EXCEPT !.id = Some(uid.name)]
    IN [result |-> [r1 EXCEPT !.template = <<"<">> \o tag_name,
                              !.template_with_closing_tags = <<"<">> \o tag_name],
        context |-> IF issue THEN uid.context ELSE context,
        panic |-> ""]

\* `>` after the attributes.
close_opening_tag(st) ==
    IF st.panic # "" THEN st
    ELSE [st EXCEPT !.result.template = @ \o <<">">>,
                    !.result.template_with_closing_tags = @ \o <<">">>]

\* What transform_element does before the children: the id and its
\* declaration, `<tag`, the attributes, `>`.
open_element(element, tag_name, info, context, options) ==
    close_opening_tag(
        transform_attributes(element,
                             start_element(tag_name, info, context,
                                           element_needs_runtime_access(element)),
                             options))

\* The TransformInfo transform_element hands to transform_children.
children_info(result, info) ==
    [info EXCEPT !.root_id = IF result.id.some THEN result.id ELSE info.root_id,
                 !.path = IF result.id.some THEN <<>> ELSE info.path,
                 !.top_level = FALSE]

close_element(st, tag_name) ==
    [st EXCEPT !.result.template = @ \o <<"<","/">> \o tag_name \o <<">">>,
               !.result.template_with_closing_tags = @ \o <<"<","/">> \o tag_name \o <<">">>]

RECURSIVE transform_element(_, _, _, _, _)
RECURSIVE transform_children_list(_, _, _, _, _)
RECURSIVE transform_child_item(_, _, _, _, _)

\* merge_child, but the child's declarations are taken last to first.
merge_child_declarations_reversed(w, cs) ==
    IF cs.panic # "" THEN [w EXCEPT !.panic = cs.panic, !.context = cs.context]
    ELSE [w EXCEPT
            !.last_was_text = FALSE,
            !.context = cs.context,
            !.result.template = @ \o cs.result.template,
            !.result.template_with_closing_tags =
                @ \o (IF cs.result.template_with_closing_tags # <<>>
                      THEN cs.result.template_with_closing_tags
                      ELSE cs.result.template),
            !.result.declarations =
                @ \o [k \in 1..Len(cs.result.declarations) |->
                         cs.result.declarations[Len(cs.result.declarations) + 1 - k]],
            !.result.exprs = @ \o cs.result.exprs,
            !.result.dynamics = @ \o cs.result.dynamics,
            !.result.has_custom_element = @ \/ cs.result.has_custom_element,
            !.node_index = @ + 1]

\* merge_child, but the child's statements go before the parent's.
merge_child_exprs_first(w, cs) ==
    IF cs.panic # "" THEN [w EXCEPT !.panic = cs.panic, !.context = cs.context]
    ELSE [w EXCEPT
            !.last_was_text = FALSE,
            !.context = cs.context,
            !.result.template = @ \o cs.result.template,
            !.result.template_with_closing_tags =
                @ \o (IF cs.result.template_with_closing_tags # <<>>
                      THEN cs.result.template_with_closing_tags
                      ELSE cs.result.template),
            !.result.declarations = @ \o cs.result.declarations,
            !.result.exprs = cs.result.exprs \o @,
            !.result.dynamics = @ \o cs.result.dynamics,
            !.result.has_custom_element = @ \/ cs.result.has_custom_element,
            !.node_index = @ + 1]

\* The merge of a native child's result into the parent's walk.
merge_child(w, cs) ==
    IF cs.panic # "" THEN [w EXCEPT !.panic = cs.panic, !.context = cs.context]
    ELSE [w EXCEPT
            !.last_was_text = FALSE,
            !.context = cs.context,
            !.result.template = @ \o cs.result.template,
            !.result.template_with_closing_tags =
                @ \o (IF cs.result.template_with_closing_tags # <<>>
                      THEN cs.result.template_with_closing_tags
                      ELSE cs.result.template),
            !.result.declarations = @ \o cs.result.declarations,
            !.result.exprs = @ \o cs.result.exprs,
            !.result.dynamics = @ \o cs.result.dynamics,
            !.result.has_custom_element = @ \/ cs.result.has_custom_element,
            !.node_index = @ + 1]

\* element_child, but the child's TransformInfo starts over with skip_id false.
element_child_resets_skip_id(child, child_tag, w, info, options) ==
    merge_child(w, transform_element(child, child_tag,
                                     [info EXCEPT !.top_level = FALSE,
                                                  !.path = child_path(info.path, w.node_index),
                                                  !.skip_id = FALSE],
                                     w.context, options))

\* A native child: recurse, merge the child's result, advance node_index.
element_child(child, child_tag, w, info, options) ==
    merge_child(w, transform_element(child, child_tag,
                                     [info EXCEPT !.top_level = FALSE,
                                                  !.path = child_path(info.path, w.node_index)],
                                     w.context, options))

\* One iteration of the loop of transform_children_list.
transform_child_item(child, w, info, options, single_dynamic) ==
    CASE child.kind = "Text" -> text_child(child, w)
      [] child.kind = "Element" ->
           LET child_tag == get_tag_name(child)
           IN IF is_component(child_tag)
              THEN component_child(child, w, single_dynamic)
              ELSE element_child(child, child_tag, w, info, options)
      [] child.kind = "ExpressionContainer" -> expression_child(child, w, single_dynamic)
      [] child.kind = "Fragment" ->
           transform_children_list(child.children, w, info, options, single_dynamic)
      [] OTHER -> w

transform_children_list(children, w, info, options, single_dynamic) ==
    IF children = <<>> \/ w.panic # "" THEN w
    ELSE transform_children_list(Tail(children),
                                 transform_child_item(Head(children), w, info, options,
                                                      single_dynamic),
                                 info, options, single_dynamic)

\* The walk state transform_children starts from.
children_start(st) ==
    [result |-> st.result, context |-> st.context, panic |-> st.panic,
     node_index |-> 0, last_was_text |-> FALSE]

end_walk(w) == [result |-> w.result, context |-> w.context, panic |-> w.panic]

transform_children(element, st, info, options) ==
    end_walk(transform_children_list(element.children, children_start(st), info, options,
                                     is_single_dynamic_child(element.children)))

close_unless_panic(st, tag_name) ==
    IF st.panic # "" THEN st ELSE close_element(st, tag_name)

\* transform_element from the `>` of the opening tag on.
children_and_close(element, tag_name, info, options, st) ==
    IF st.panic # "" THEN st
    ELSE IF tag_name \in VOID_ELEMENTS THEN st
    ELSE close_unless_panic(
             transform_children(element, st, children_info(st.result, info), options),
             tag_name)

transform_element(element, tag_name, info, context, options) ==
    children_and_close(element, tag_name, info, options,
                       open_element(element, tag_name, info, context, options))

-----------------------------------------------------------------------------
(* The JSX trees handed to the transform (the parser's output) *)

JSXIdentifier(name) == [kind |-> "Identifier", name |-> name]
JSXNamespacedName(namespace, name) ==
    [kind |-> "NamespacedName", namespace |-> namespace, name |-> name]
JSXText(value) == [kind |-> "Text", value |-> value]
JSXExpressionContainer(expression) ==
    [kind |-> "ExpressionContainer", expression |-> expression]
JSXFragment(children) == [kind |-> "Fragment", children |-> children]
JSXElement(tag, attributes, children) ==
    [kind |-> "Element", name |-> JSXIdentifier(tag),
     attributes |-> attributes, children |-> children]
JSXAttribute(name, value) == [kind |-> "Attribute", name |-> name, value |-> value]
JSXSpreadAttribute(argument) == [kind |-> "SpreadAttribute", argument |-> argument]
StringLiteral(value) == [kind |-> "StringLiteral", value |-> value]
NumericLiteral(tenths) == [kind |-> "NumericLiteral", num |-> tenths]
Identifier(name) == [kind |-> "Identifier", name |-> name]
CallExpression(callee) == [kind |-> "CallExpression", callee |-> callee, arguments |-> <<>>]
ArrowFunctionExpression(params, body) ==
    [kind |-> "ArrowFunctionExpression", params |-> params, body |-> body]
ObjectExpression(properties) == [kind |-> "ObjectExpression", properties |-> properties]
ObjectProperty(key, value) ==
    [kind |-> "ObjectProperty", key |-> key, value |-> value, computed |-> FALSE]
\* { [key]: value }: the key is the expression between the brackets.
ComputedProperty(key, value) ==
    [kind |-> "ObjectProperty", key |-> key, value |-> value, computed |-> TRUE]
SpreadProperty(argument) == [kind |-> "SpreadProperty", argument |-> argument]
StaticIdentifier(name) == [kind |-> "StaticIdentifier", name |-> name]
EmptyExpression == [kind |-> "EmptyExpression"]
CallExpressionWith(callee, arguments) ==
    [kind |-> "CallExpression", callee |-> callee, arguments |-> arguments]
StaticMemberExpression(object, property) ==
    [kind |-> "StaticMemberExpression", object |-> object, property |-> property]
UnaryExpression(operator, argument) ==
    [kind |-> "UnaryExpression", operator |-> operator, argument |-> argument]
BinaryExpression(left, operator, right) ==
    [kind |-> "BinaryExpression", left |-> left, operator |-> operator, right |-> right]
ConditionalExpression(test, consequent, alternate) ==
    [kind |-> "ConditionalExpression", test |-> test, consequent |-> consequent,
     alternate |-> alternate]
ArrayExpression(elements) == [kind |-> "ArrayExpression", elements |-> elements]
FunctionExpression(params, body) ==
    [kind |-> "FunctionExpression", params |-> params, body |-> body]

Lit(value) == Some(StringLiteral(value))
Braces(expression) == Some(JSXExpressionContainer(expression))
Attr(name, value) == JSXAttribute(JSXIdentifier(name), value)
NsAttr(namespace, name, value) == JSXAttribute(JSXNamespacedName(namespace, name), value)

call_x == CallExpression(Identifier(<<"x">>))
ident_h == Identifier(<<"h">>)
dyn_id == Attr(<<"i","d">>, Braces(call_x))

\* Bounds of the input families.
MaxNodes == 3
MaxFlat == 4
MaxNest == 3
MaxAttrs == 1
MaxRuns == 2
MaxExprDepth == 2
MaxComponentNodes == 2

\* A child that holds other children: a fragment, a plain element <b>, or an
\* element <p id={x()}> with a dynamic attribute.
Wrap(how, children) ==
    CASE how = "Fragment" -> JSXFragment(children)
      [] how = "b" -> JSXElement(<<"b">>, <<>>, children)
      [] OTHER -> JSXElement(<<"p">>, <<dyn_id>>, children)

\* The child lists of exactly n nodes over the leaves `atoms` and the holders `wraps`.
RECURSIVE Forests(_, _, _)
RECURSIVE Trees(_, _, _)
Trees(atoms, wraps, k) ==
    IF k = 1 THEN atoms \cup {Wrap(how, <<>>) : how \in wraps}
    ELSE {Wrap(c[1], c[2]) : c \in wraps \X Forests(atoms, wraps, k - 1)}
Forests(atoms, wraps, n) ==
    IF n = 0 THEN {<<>>}
    ELSE UNION {{<<c[1]>> \o c[2] :
                    c \in Trees(atoms, wraps, k) \X Forests(atoms, wraps, n - k)} :
                k \in 1..n}
ForestsUpTo(atoms, wraps, n) == UNION {Forests(atoms, wraps, m) : m \in 0..n}

RECURSIVE ListsUpTo(_, _)
ListsUpTo(S, n) ==
    IF n = 0 THEN {<<>>}
    ELSE ListsUpTo(S, n - 1) \cup {Append(l, x) : l \in {m \in ListsUpTo(S, n - 1) : Len(m) = n - 1}, x \in S}

text_a == JSXText(<<"a">>)
text_ws == JSXText(<<" ">>)
expr_x == JSXExpressionContainer(call_x)
expr_empty == JSXExpressionContainer(EmptyExpression)
comp(tag) == JSXElement(tag, <<>>, <<>>)

TextAtoms == {text_a, text_ws, expr_x, expr_empty, comp(<<"N">>)}
NestAtoms == {text_a, expr_x, comp(<<"E">>), comp(<<"C">>), comp(<<"M">>), JSXElement(<<"b","r">>, <<>>, <<>>)}

\* Attributes, one of each shape the router tells apart.
PlainAttrs ==
    {Attr(<<"c","l","a","s","s">>, Lit(<<"x">>)), Attr(<<"c","l","a","s","s","N","a","m","e">>, Lit(<<"x">>)), Attr(<<"t","i","t","l","e">>, Lit(<<"<","!",">">>)),
     Attr(<<"t","i","t","l","e">>, Lit(<<"a","\"","b","&","c">>)),
     Attr(<<"d","i","s","a","b","l","e","d">>, None), dyn_id, Attr(<<"i","d">>, Braces(StringLiteral(<<"s">>))),
     Attr(<<"i","d">>, Braces(EmptyExpression)), JSXSpreadAttribute(Identifier(<<"p","r","o","p","s">>))}
RefAttrs ==
    {Attr(<<"r","e","f">>, Braces(Identifier(<<"r">>))),
     Attr(<<"r","e","f">>, Braces(ArrowFunctionExpression(<<<<"e","l">>>>, Identifier(<<"r">>)))),
     Attr(<<"r","e","f">>, Lit(<<"r">>))}
EventAttrs ==
    {Attr(<<"o","n","C","l","i","c","k">>, Braces(ident_h)), Attr(<<"o","n","M","o","u","s","e","O","v","e","r">>, Braces(ident_h)),
     Attr(<<"o","n","C","l","i","c","k","C","a","p","t","u","r","e">>, Braces(ident_h)), NsAttr(<<"o","n">>, <<"c","l","i","c","k">>, Braces(ident_h)),
     Attr(<<"o","n","C","l","i","c","k">>, None), Attr(<<"o","n">>, Lit(<<"x">>)), Attr(<<"o","n">>, Braces(ident_h))}
NamespacedAttrs ==
    {NsAttr(<<"u","s","e">>, <<"d">>, Braces(ident_h)), NsAttr(<<"p","r","o","p">>, <<"v","a","l","u","e">>, Braces(call_x)),
     NsAttr(<<"p","r","o","p">>, <<"v","a","l","u","e">>, Braces(StringLiteral(<<"s">>))),
     NsAttr(<<"a","t","t","r">>, <<"n","a","m","e">>, Lit(<<"l","i","t","e","r","a","l">>)), NsAttr(<<"a","t","t","r">>, <<"n","a","m","e">>, Braces(call_x))}
StyleAttrs ==
    {Attr(<<"s","t","y","l","e">>, Lit(<<"c","o","l","o","r",":"," ","r","e","d">>)),
     Attr(<<"s","t","y","l","e">>, Braces(ObjectExpression(
         <<ObjectProperty(StaticIdentifier(<<"c","o","l","o","r">>), StringLiteral(<<"r","e","d">>))>>))),
     Attr(<<"s","t","y","l","e">>, Braces(ObjectExpression(
         <<ObjectProperty(StaticIdentifier(<<"c","o","n","t","e","n","t">>), StringLiteral(<<"<","!",">">>))>>))),
     Attr(<<"s","t","y","l","e">>, Braces(ObjectExpression(
         <<ObjectProperty(StaticIdentifier(<<"m","a","r","g","i","n","T","o","p">>), NumericLiteral(40)),
           ObjectProperty(StaticIdentifier(<<"z","I","n","d","e","x">>), NumericLiteral(0))>>))),
     Attr(<<"s","t","y","l","e">>, Braces(ObjectExpression(
         <<ObjectProperty(StaticIdentifier(<<"o","p","a","c","i","t","y">>), NumericLiteral(5)),
           ObjectProperty(StaticIdentifier(<<"m","a","r","g","i","n","T","o","p">>), NumericLiteral(0))>>))),
     Attr(<<"s","t","y","l","e">>, Braces(ObjectExpression(
         <<ObjectProperty(StringLiteral(<<"f","o","n","t","-","s","i","z","e">>), NumericLiteral(120))>>))),
     Attr(<<"s","t","y","l","e">>, Braces(ObjectExpression(
         <<ComputedProperty(StringLiteral(<<"c","o","l","o","r">>), StringLiteral(<<"r","e","d">>))>>))),
     Attr(<<"s","t","y","l","e">>, Braces(ObjectExpression(
         <<ComputedProperty(Identifier(<<"k">>), StringLiteral(<<"r","e","d">>))>>))),
     Attr(<<"s","t","y","l","e">>, Braces(ObjectExpression(<<>>))),
     Attr(<<"s","t","y","l","e">>, Braces(ObjectExpression(
         <<ObjectProperty(StaticIdentifier(<<"c","o","l","o","r">>), call_x)>>))),
     Attr(<<"s","t","y","l","e">>, Braces(ObjectExpression(<<SpreadProperty(Identifier(<<"o">>))>>))),
     Attr(<<"s","t","y","l","e">>, Braces(Identifier(<<"s">>)))}
InnerContentAttrs ==
    {Attr(<<"i","n","n","e","r","H","T","M","L">>, Lit(<<"s">>)), Attr(<<"i","n","n","e","r","H","T","M","L">>, Braces(call_x)),
     Attr(<<"t","e","x","t","C","o","n","t","e","n","t">>, Lit(<<"s">>)), Attr(<<"t","e","x","t","C","o","n","t","e","n","t">>, Braces(StringLiteral(<<"s">>))),
     Attr(<<"i","n","n","e","r","T","e","x","t">>, Lit(<<"s">>))}
AttrAtoms ==
    PlainAttrs \cup RefAttrs \cup EventAttrs \cup NamespacedAttrs \cup StyleAttrs
        \cup InnerContentAttrs

\* TransformOptions: delegate_events and the user's delegated_events.
DefaultOptions == [delegate_events |-> TRUE, delegated_events |-> {}]
AllOptions ==
    {[delegate_events |-> d, delegated_events |-> u] :
        d \in BOOLEAN, u \in {{}, {<<"m","o","u","s","e","o","v","e","r">>}}}

\* TransformInfo of a top-level call, of a call below a root reached by a path,
\* of a call with neither, and of calls that forbid an id.
TopInfo == TransformInfo(None, <<>>, TRUE, FALSE)
OtherInfos ==
    {TransformInfo(Some(<<"r","o","o","t","$">>), <<<<"f","i","r","s","t","C","h","i","l","d">>>>, FALSE, FALSE),
     TransformInfo(None, <<>>, FALSE, FALSE),
     TransformInfo(None, <<>>, TRUE, TRUE),
     TransformInfo(None, <<>>, FALSE, TRUE)}

Input(element, info, options) == [element |-> element, info |-> info, options |-> options]

\* <div>children</div> for the mixes of text, expression, component and fragment children.
TextFamily ==
    {Input(JSXElement(<<"d","i","v">>, <<>>, f), TopInfo, DefaultOptions) :
        f \in ForestsUpTo(TextAtoms, {"Fragment"}, MaxNodes)}
\* <div>children</div> for longer runs of text, output-less component and expression.
FlatFamily ==
    {Input(JSXElement(<<"d","i","v">>, <<>>, f), TopInfo, DefaultOptions) :
        f \in ListsUpTo({text_a, comp(<<"N">>), expr_x}, MaxFlat)}
\* <div>children</div> with nested native elements.
NestFamily ==
    {Input(JSXElement(<<"d","i","v">>, <<>>, f), TopInfo, DefaultOptions) :
        f \in ForestsUpTo(NestAtoms, {"b", "p"}, MaxNest)}
\* <p attrs>kids</p> at the top and below a <div>.
AttrFamily ==
    UNION {{Input(JSXElement(<<"p">>, a, k), TopInfo, DefaultOptions),
            Input(JSXElement(<<"d","i","v">>, <<>>, <<JSXElement(<<"p">>, a, k)>>), TopInfo, DefaultOptions),
            Input(JSXElement(<<"i","m","g">>, a, <<>>), TopInfo, DefaultOptions)} :
           <<a, k>> \in ListsUpTo(AttrAtoms, MaxAttrs) \X {<<>>, <<text_a>>}}
\* events under every option.
EventFamily ==
    {Input(JSXElement(<<"d","i","v">>, <<a>>, <<>>), TopInfo, o) : a \in EventAttrs, o \in AllOptions}
\* two statement-generating attributes and a dynamic child, at the top and below a <div>.
StatementAttrs ==
    {Attr(<<"r","e","f">>, Braces(Identifier(<<"r">>))), Attr(<<"o","n","C","l","i","c","k">>, Braces(ident_h)),
     NsAttr(<<"u","s","e">>, <<"d">>, Braces(ident_h)), NsAttr(<<"p","r","o","p">>, <<"v","a","l","u","e">>, Braces(call_x)),
     JSXSpreadAttribute(Identifier(<<"p","r","o","p","s">>))}
OrderFamily ==
    UNION {{Input(JSXElement(<<"p">>, <<a, b>>, <<expr_x>>), TopInfo, DefaultOptions),
            Input(JSXElement(<<"d","i","v">>, <<>>, <<JSXElement(<<"p">>, <<a, b>>, <<expr_x>>)>>),
                  TopInfo, DefaultOptions)} :
           <<a, b>> \in {ab \in StatementAttrs \X StatementAttrs : ab[1] # ab[2]}}
\* calls that are not top-level, or forbid an id.
InfoFamily ==
    {Input(JSXElement(<<"d","i","v">>, <<>>, k), i, DefaultOptions) :
        k \in ListsUpTo({text_a, expr_x, comp(<<"C">>), JSXElement(<<"p">>, <<dyn_id>>, <<>>),
                         JSXElement(<<"b">>, <<>>, <<JSXElement(<<"p">>, <<dyn_id>>, <<>>)>>),
                         JSXElement(<<"b">>, <<>>, <<expr_x, comp(<<"C">>)>>),
                         JSXElement(<<"b">>, <<>>, <<JSXElement(<<"b">>, <<>>, <<expr_x>>)>>)}, 2),
        i \in OtherInfos}
    \cup {Input(JSXElement(<<"d","i","v">>, <<a>>, <<>>), i, DefaultOptions) :
            a \in {dyn_id, Attr(<<"c","l","a","s","s">>, Lit(<<"x">>)), Attr(<<"o","n","C","l","i","c","k">>, Braces(ident_h))},
            i \in OtherInfos}

\* The expressions one step above e: e as callee, argument, object of a member
\* access, operand, property value, computed key, spread, array element and
\* body of a function literal.
ExprOver(e) ==
    {CallExpression(e), CallExpressionWith(Identifier(<<"f">>), <<e>>),
     StaticMemberExpression(e, <<"p">>), UnaryExpression(<<"!">>, e),
     BinaryExpression(e, <<"+">>, NumericLiteral(10)),
     BinaryExpression(NumericLiteral(10), <<"+">>, e),
     ObjectExpression(<<ObjectProperty(StaticIdentifier(<<"a">>), e)>>),
     ObjectExpression(<<ComputedProperty(e, NumericLiteral(10))>>),
     ObjectExpression(<<SpreadProperty(e)>>),
     ArrayExpression(<<e>>),
     ArrowFunctionExpression(<<>>, e), FunctionExpression(<<>>, e)}
ExprLeaves == {StringLiteral(<<"s">>), NumericLiteral(10), Identifier(<<"v">>)}
RECURSIVE ExprTrees(_)
ExprTrees(d) ==
    IF d = 0 THEN ExprLeaves
    ELSE LET below == ExprTrees(d - 1)
         IN below \cup UNION {ExprOver(e) : e \in below}
\* <div>{e}</div> for the expression trees e.
ExprFamily ==
    {Input(JSXElement(<<"d","i","v">>, <<>>, <<JSXExpressionContainer(e)>>), TopInfo, DefaultOptions) :
        e \in ExprTrees(MaxExprDepth)}

\* <p attr></p> in calls that are not top-level, or forbid an id.
AttrInfoFamily ==
    {Input(JSXElement(<<"p">>, <<a>>, <<>>), i, DefaultOptions) :
        a \in AttrAtoms, i \in OtherInfos}

\* <p ref={e}></p> at the top and below a <div>, for function literals and for
\* expressions that are none.
RefExpressions ==
    {Identifier(<<"r">>), Identifier(<<"f","u","n","c","t","i","o","n","R","e","f">>),
     ArrowFunctionExpression(<<<<"e","l">>>>, Identifier(<<"r">>)),
     FunctionExpression(<<<<"e","l">>>>, Identifier(<<"r">>)),
     StaticMemberExpression(Identifier(<<"o">>), <<"r">>), call_x,
     CallExpressionWith(Identifier(<<"f">>), <<ArrowFunctionExpression(<<>>, Identifier(<<"r">>))>>),
     ConditionalExpression(Identifier(<<"c">>), Identifier(<<"a">>), Identifier(<<"b">>)),
     ConditionalExpression(Identifier(<<"c">>),
                           ArrowFunctionExpression(<<<<"e","l">>>>, Identifier(<<"r">>)),
                           Identifier(<<"b">>)),
     StringLiteral(<<"=",">">>)}
RefFamily ==
    UNION {{Input(JSXElement(<<"p">>, <<Attr(<<"r","e","f">>, Braces(e))>>, <<>>), TopInfo, DefaultOptions),
            Input(JSXElement(<<"d","i","v">>, <<>>,
                             <<JSXElement(<<"p">>, <<Attr(<<"r","e","f">>, Braces(e))>>, <<>>)>>),
                  TopInfo, DefaultOptions)} :
           e \in RefExpressions}

\* <div>children</div> for components with output, alone, beside blank text and
\* inside fragments.
ComponentFamily ==
    {Input(JSXElement(<<"d","i","v">>, <<>>, f), TopInfo, DefaultOptions) :
        f \in ForestsUpTo({comp(<<"C">>), comp(<<"M">>), text_ws}, {"Fragment"}, MaxComponentNodes)}

\* <p attr></p>, at the top and below a <div>, for each handler that writes a
\* source value into the template; the value holds `"`, `<` and `&`.
EscapeAttrs ==
    {Attr(<<"t","i","t","l","e">>, Lit(<<"a","\"","<","&">>)), NsAttr(<<"a","t","t","r">>, <<"n","a","m","e">>, Lit(<<"a","\"","<","&">>)),
     Attr(<<"s","t","y","l","e">>, Lit(<<"a","\"","<","&">>)),
     Attr(<<"s","t","y","l","e">>, Braces(ObjectExpression(
         <<ObjectProperty(StaticIdentifier(<<"c","o","n","t","e","n","t">>), StringLiteral(<<"a","\"","<","&">>))>>))),
     Attr(<<"s","t","y","l","e">>, Braces(ObjectExpression(
         <<ObjectProperty(StringLiteral(<<"a","\"","<","&">>), NumericLiteral(10))>>)))}
EscapeFamily ==
    UNION {{Input(JSXElement(<<"p">>, <<a>>, <<>>), TopInfo, DefaultOptions),
            Input(JSXElement(<<"d","i","v">>, <<>>, <<JSXElement(<<"p">>, <<a>>, <<>>)>>),
                  TopInfo, DefaultOptions)} :
           a \in EscapeAttrs}

Inputs == EscapeFamily \cup ComponentFamily \cup RefFamily \cup AttrInfoFamily \cup ExprFamily \cup TextFamily \cup FlatFamily \cup NestFamily \cup OrderFamily \cup AttrFamily \cup EventFamily \cup InfoFamily
\* The elements a used BlockContext is handed next.
ReuseInputs == EventFamily

-----------------------------------------------------------------------------
(* The state machine: one transform_element call on the outermost element, *)
(* its child walk taken one child at a time.                               *)

VARIABLES element, info, options, context, result, panic, pc, pos, node_index,
          last_was_text, single_dynamic, runs

vars == <<element, info, options, context, result, panic, pc, pos, node_index,
          last_was_text, single_dynamic, runs>>

\* The linter's LintContext, the calls made on it so far, and what
\* into_diagnostics returned once it consumed the context.
VARIABLES lint_context, calls, returned

lint_vars == <<lint_context, calls, returned>>

\* LintContext::new: no diagnostics, nothing marked, nothing registered.
LintContext_new ==
    [diagnostics |-> <<>>, symbols_used |-> {}, component_symbols |-> {},
     solid_imports |-> {}]

\* No call was made on the LintContext.
LintFresh ==
    /\ lint_context = LintContext_new
    /\ calls = <<>>
    /\ returned = None

\* TransformResult::default()
DefaultResult ==
    [NewTransformResult(<<>>, FALSE, FALSE) EXCEPT !.tag_name = None]

Init ==
    /\ \E in \in Inputs :
          /\ element = in.element
          /\ info = in.info
          /\ options = in.options
    /\ context = NewBlockContext
    /\ result = DefaultResult
    /\ panic = ""
    /\ pc = "start"
    /\ pos = 1
    /\ node_index = 0
    /\ last_was_text = FALSE
    /\ single_dynamic = FALSE
    /\ runs = 1
    /\ LintFresh

\* The walk state of the outermost element's children.
Walk ==
    [result |-> result, context |-> context, panic |-> panic,
     node_index |-> node_index, last_was_text |-> last_was_text]

\* The walk state becomes w.
SetWalk(w) ==
    /\ result' = w.result
    /\ context' = w.context
    /\ panic' = w.panic
    /\ node_index' = w.node_index
    /\ last_was_text' = w.last_was_text
    /\ pc' = IF w.panic # "" THEN "panic"
             ELSE IF get_tag_name(element) \in VOID_ELEMENTS THEN "done"
             ELSE "children"

\* transform_element up to the `>` of the opening tag.
Begin ==
    /\ pc = "start"
    /\ SetWalk(children_start(open_element(element, get_tag_name(element), info, context,
                                           options)))
    /\ single_dynamic' = is_single_dynamic_child(element.children)
    /\ pos' = 1
    /\ UNCHANGED <<element, info, options, runs>>
    /\ UNCHANGED lint_vars

\* One iteration of the main child pass.
Child ==
    /\ pc = "children"
    /\ pos <= Len(element.children)
    /\ SetWalk(transform_child_item(element.children[pos], Walk,
                                    children_info(result, info), options, single_dynamic))
    /\ pos' = pos + 1
    /\ UNCHANGED <<element, info, options, single_dynamic, runs>>
    /\ UNCHANGED lint_vars

\* After the last child: the closing tag.
End ==
    /\ pc = "children"
    /\ pos > Len(element.children)
    /\ result' = close_element(Walk, get_tag_name(element)).result
    /\ pc' = "done"
    /\ UNCHANGED <<element, info, options, context, panic, pos, node_index,
                   last_was_text, single_dynamic, runs>>
    /\ UNCHANGED lint_vars

\* The same BlockContext is handed the next element.
Reuse ==
    /\ pc = "done"
    /\ runs < MaxRuns
    /\ \E in \in ReuseInputs :
          /\ element' = in.element
          /\ info' = in.info
          /\ options' = in.options
    /\ result' = DefaultResult
    /\ pc' = "start"
    /\ pos' = 1
    /\ node_index' = 0
    /\ last_was_text' = FALSE
    /\ single_dynamic' = FALSE
    /\ runs' = runs + 1
    /\ UNCHANGED <<context, panic>>
    /\ UNCHANGED lint_vars

Next == Begin \/ Child \/ End \/ Reuse

Spec == Init /\ [][Next]_vars

-----------------------------------------------------------------------------
(* linter/src/context.rs: LintContext and the calls rules make on it *)

\* report, but the diagnostic goes to the front of the list.
report_prepends(ctx, diagnostic) == [ctx EXCEPT !.diagnostics = <<diagnostic>> \o @]

report(ctx, diagnostic) == [ctx EXCEPT !.diagnostics = Append(@, diagnostic)]
into_diagnostics(ctx) == ctx.diagnostics
diagnostics(ctx) == ctx.diagnostics
mark_used(ctx, symbol_id) == [ctx EXCEPT !.symbols_used = @ \cup {symbol_id}]
is_used(ctx, symbol_id) == symbol_id \in ctx.symbols_used
mark_component(ctx, symbol_id) == [ctx EXCEPT !.component_symbols = @ \cup {symbol_id}]
LintContext_is_component(ctx, symbol_id) == symbol_id \in ctx.component_symbols
register_solid_import(ctx, name) == [ctx EXCEPT !.solid_imports = @ \cup {name}]
is_solid_import(ctx, name) == name \in ctx.solid_imports

\* The arguments of the calls, and the bound on their number.
MaxCalls == 4
Diagnostics == {"no-innerhtml", "jsx-no-undef"}
SymbolIds == {0, 1}
ImportNames == {<<"c","r","e","a","t","e","S","i","g","n","a","l">>, <<"c","r","e","a","t","e","M","e","m","o">>}

Call(op, arg) == [op |-> op, arg |-> arg]

\* A rule may call the context until into_diagnostics has consumed it.
CanCall == pc = "lint" /\ ~returned.some /\ Len(calls) < MaxCalls

Report ==
    /\ CanCall
    /\ \E d \in Diagnostics :
          /\ lint_context' = report(lint_context, d)
          /\ calls' = Append(calls, Call("report", d))
    /\ UNCHANGED returned
    /\ UNCHANGED vars

MarkUsed ==
    /\ CanCall
    /\ \E s \in SymbolIds :
          /\ lint_context' = mark_used(lint_context, s)
          /\ calls' = Append(calls, Call("mark_used", s))
    /\ UNCHANGED returned
    /\ UNCHANGED vars

MarkComponent ==
    /\ CanCall
    /\ \E s \in SymbolIds :
          /\ lint_context' = mark_component(lint_context, s)
          /\ calls' = Append(calls, Call("mark_component", s))
    /\ UNCHANGED returned
    /\ UNCHANGED vars

RegisterSolidImport ==
    /\ CanCall
    /\ \E n \in ImportNames :
          /\ lint_context' = register_solid_import(lint_context, n)
          /\ calls' = Append(calls, Call("register_solid_import", n))
    /\ UNCHANGED returned
    /\ UNCHANGED vars

\* into_diagnostics takes the context by value: no call follows it.
IntoDiagnostics ==
    /\ pc = "lint"
    /\ ~returned.some
    /\ returned' = Some(into_diagnostics(lint_context))
    /\ UNCHANGED <<lint_context, calls>>
    /\ UNCHANGED vars

\* A fresh LintContext; no transform is running.
LintInit ==
    /\ LintFresh
    /\ element = JSXElement(<<"d","i","v">>, <<>>, <<>>)
    /\ info = TopInfo
    /\ options = DefaultOptions
    /\ context = NewBlockContext
    /\ result = DefaultResult
    /\ panic = ""
    /\ pc = "lint"
    /\ pos = 1
    /\ node_index = 0
    /\ last_was_text = FALSE
    /\ single_dynamic = FALSE
    /\ runs = 1

LintNext == Report \/ MarkUsed \/ MarkComponent \/ RegisterSolidImport \/ IntoDiagnostics

LintSpec == LintInit /\ [][LintNext]_lint_vars

-----------------------------------------------------------------------------
(* Reading the output: the DOM a template parses into, the names a          *)
(* statement mentions, the node a declaration's chain reaches.              *)

\* The index of the first c in s at or after i, Len(s) + 1 if there is none.
RECURSIVE IndexFrom(_, _, _)
IndexFrom(s, c, i) ==
    IF i > Len(s) THEN Len(s) + 1
    ELSE IF s[i] = c THEN i
    ELSE IndexFrom(s, c, i + 1)

\* The index of the `>` that ends the tag opened before i, quoted text skipped.
RECURSIVE TagEnd(_, _, _)
TagEnd(s, i, quoted) ==
    IF i > Len(s) THEN Len(s) + 1
    ELSE IF s[i] = "\"" THEN TagEnd(s, i + 1, ~quoted)
    ELSE IF s[i] = ">" /\ ~quoted THEN i
    ELSE TagEnd(s, i + 1, quoted)

Min(a, b) == IF a < b THEN a ELSE b

\* The tokens of an HTML string: opening tags, closing tags, `<!>` comments, text runs.
RECURSIVE HtmlTokens(_, _)
HtmlTokens(s, i) ==
    IF i > Len(s) THEN <<>>
    ELSE IF s[i] # "<"
    THEN <<[t |-> "text"]>> \o HtmlTokens(s, IndexFrom(s, "<", i))
    ELSE IF i < Len(s) /\ s[i + 1] = "/"
    THEN <<[t |-> "close", tag |-> SubSeq(s, i + 2, IndexFrom(s, ">", i) - 1)]>>
             \o HtmlTokens(s, IndexFrom(s, ">", i) + 1)
    ELSE IF i < Len(s) /\ s[i + 1] = "!"
    THEN <<[t |-> "comment"]>> \o HtmlTokens(s, IndexFrom(s, ">", i) + 1)
    ELSE <<[t |-> "open",
            tag |-> SubSeq(s, i + 1, Min(IndexFrom(s, " ", i), IndexFrom(s, ">", i)) - 1),
            attrs |-> SubSeq(s, Min(IndexFrom(s, " ", i), IndexFrom(s, ">", i)),
                             TagEnd(s, i + 1, FALSE) - 1)]>>
             \o HtmlTokens(s, TagEnd(s, i + 1, FALSE) + 1)

\* The nodes the tokens from i on parse into, up to the closing tag of the
\* element they are in (or the end); `closed` tells whether that tag was there.
RECURSIVE DomNodes(_, _)
DomAfter(toks, node, inner) ==
    LET rest == DomNodes(toks, IF inner.closed THEN inner.next + 1 ELSE inner.next)
    IN [nodes |-> <<[node EXCEPT !.children = inner.nodes, !.closed = inner.closed]>>
                      \o rest.nodes,
        next |-> rest.next, closed |-> rest.closed]
DomLeaf(toks, node, i) ==
    LET rest == DomNodes(toks, i + 1)
    IN [nodes |-> <<node>> \o rest.nodes, next |-> rest.next, closed |-> rest.closed]
DomNodes(toks, i) ==
    IF i > Len(toks) THEN [nodes |-> <<>>, next |-> i, closed |-> FALSE]
    ELSE IF toks[i].t = "close" THEN [nodes |-> <<>>, next |-> i, closed |-> TRUE]
    ELSE IF toks[i].t = "open" /\ toks[i].tag \notin VOID_ELEMENTS
    THEN DomAfter(toks, [type |-> "element", tag |-> toks[i].tag, attrs |-> toks[i].attrs,
                         children |-> <<>>, closed |-> FALSE],
                  DomNodes(toks, i + 1))
    ELSE IF toks[i].t = "open"
    THEN DomLeaf(toks, [type |-> "element", tag |-> toks[i].tag, attrs |-> toks[i].attrs,
                        children |-> <<>>, closed |-> TRUE], i)
    ELSE DomLeaf(toks, [type |-> toks[i].t, tag |-> <<>>, attrs |-> <<>>,
                        children |-> <<>>, closed |-> TRUE], i)

ParseHtml(s) == DomNodes(HtmlTokens(s, 1), 1).nodes

\* The node at a position (child indices from the top) in a list of nodes, if any.
RECURSIVE NodeAt(_, _)
NodeAt(nodes, position) ==
    IF position = <<>> \/ Head(position) > Len(nodes) THEN None
    ELSE IF Len(position) = 1 THEN Some(nodes[Head(position)])
    ELSE NodeAt(nodes[Head(position)].children, Tail(position))

\* firstChild and nextSibling on positions; <<>> is null.
StepFrom(nodes, position, step) ==
    LET next == IF step = <<"f","i","r","s","t","C","h","i","l","d">> THEN Append(position, 1)
                ELSE IF step = <<"n","e","x","t","S","i","b","l","i","n","g">> /\ position # <<>>
                THEN [position EXCEPT ![Len(position)] = @ + 1]
                ELSE <<>>
    IN IF position # <<>> /\ NodeAt(nodes, next).some THEN next ELSE <<>>

RECURSIVE WalkFrom(_, _, _)
WalkFrom(nodes, position, steps) ==
    IF steps = <<>> THEN position
    ELSE WalkFrom(nodes, StepFrom(nodes, position, Head(steps)), Tail(steps))

\* a.b.c as <<a, b, c>>
RECURSIVE SplitDots(_, _)
SplitDots(s, current) ==
    IF s = <<>> THEN <<current>>
    ELSE IF Head(s) = "." THEN <<current>> \o SplitDots(Tail(s), <<>>)
    ELSE SplitDots(Tail(s), Append(current, Head(s)))

IsIdentChar(c) ==
    \/ \E i \in 1..Len(UPPER) : UPPER[i] = c \/ LOWER[i] = c
    \/ \E i \in 1..Len(DIGITS) : DIGITS[i] = c
    \/ c \in {"$", "_"}

\* The identifiers in a piece of code.
RECURSIVE IdentsOf(_, _)
IdentsOf(s, current) ==
    IF s = <<>> THEN (IF current = <<>> THEN {} ELSE {current})
    ELSE IF IsIdentChar(Head(s)) THEN IdentsOf(Tail(s), Append(current, Head(s)))
    ELSE (IF current = <<>> THEN {} ELSE {current}) \cup IdentsOf(Tail(s), <<>>)

\* The element and marker names a statement mentions: the uids in it.
UidsOf(code) == {n \in IdentsOf(code, <<>>) : starts_with(n, <<"e","l","$">>)}

\* How many times p occurs in s.
RECURSIVE CountOccurrences(_, _)
CountOccurrences(s, p) ==
    IF Len(s) < Len(p) THEN 0
    ELSE (IF starts_with(s, p) THEN 1 ELSE 0) + CountOccurrences(Tail(s), p)

DeclaredNames(r) == {r.declarations[i].name : i \in 1..Len(r.declarations)}
ReferencedNames(r) ==
    UNION {UidsOf(r.exprs[i].code) : i \in 1..Len(r.exprs)}
        \cup {r.dynamics[i].elem : i \in 1..Len(r.dynamics)}

\* insert(parent, value, marker): the statements that consume `marker`.
IsMarkerInsert(code, marker) ==
    starts_with(code, <<"i","n","s","e","r","t","(">>) /\ ends_with(code, <<","," ">> \o marker \o <<")">>)
IsMarker(r, name) == \E i \in 1..Len(r.exprs) : IsMarkerInsert(r.exprs[i].code, name)
MarkerDeclarations(r) ==
    {i \in 1..Len(r.declarations) : IsMarker(r, r.declarations[i].name)}

\* The position of the node a name denotes in the DOM of r's
\* template_with_closing_tags: the top node for the id of the outermost
\* element, the end of its chain for a declared name; <<>> if there is none.
RECURSIVE PositionOf(_, _, _, _)
PositionOf(r, nodes, name, fuel) ==
    LET decls == {i \in 1..Len(r.declarations) : r.declarations[i].name = name}
    IN IF decls = {} \/ fuel = 0
       THEN (IF r.id.some /\ r.id.v = name THEN <<1>> ELSE <<>>)
       ELSE LET chain == SplitDots(r.declarations[CHOOSE i \in decls : TRUE].init, <<>>)
            IN WalkFrom(nodes, PositionOf(r, nodes, Head(chain), fuel - 1), Tail(chain))

-----------------------------------------------------------------------------
(* Properties of the result.                                                *)

Done == pc = "done"
Declarations == 1..Len(result.declarations)
Dom == ParseHtml(result.template_with_closing_tags)

\* The node a declaration reaches is the node its name was issued for.
ReachesItsNode(r, nodes, i) ==
    LET name == r.declarations[i].name
        node == NodeAt(nodes, PositionOf(r, nodes, name, Len(r.declarations) + 1))
    IN /\ node.some
       /\ IF IsMarker(r, name) THEN node.v.type = "comment" ELSE node.v.type = "element"
       /\ \A b \in 1..Len(r.dynamics) :
              r.dynamics[b].elem = name => node.v.tag = r.dynamics[b].tag_name

\* C1: for a top-level element with skip_id false, every declaration's chain,
\* walked over the DOM of template_with_closing_tags, ends at the node the name
\* was issued for: an element (of the tag a binding carries) for an element id,
\* a comment for a marker id.
DeclarationsResolve ==
    (Done /\ info.top_level /\ ~info.skip_id) =>
        \A i \in Declarations : ReachesItsNode(result, Dom, i)

\* C2: every name the statements and bindings mention is the id of the
\* outermost element or declared exactly once, and no name is declared twice.
NamesDeclaredOnce ==
    Done =>
        /\ \A n \in ReferencedNames(result) :
               \/ result.id = Some(n)
               \/ Cardinality({i \in Declarations : result.declarations[i].name = n}) = 1
        /\ \A i, j \in Declarations :
               result.declarations[i].name = result.declarations[j].name => i = j

\* C3: the template holds as many `<!>` as there are marker declarations.
MarkerCorrespondence ==
    Done => CountOccurrences(result.template, <<"<","!",">">>)
                = Cardinality(MarkerDeclarations(result))

\* s without its closing tags.
RECURSIVE WithoutClosingTags(_)
WithoutClosingTags(s) ==
    IF s = <<>> THEN <<>>
    ELSE IF starts_with(s, <<"<","/">>)
    THEN WithoutClosingTags(SubSeq(s, IndexFrom(s, ">", 1) + 1, Len(s)))
    ELSE <<Head(s)>> \o WithoutClosingTags(Tail(s))

RECURSIVE EveryTagClosed(_)
EveryTagClosed(nodes) ==
    \A i \in 1..Len(nodes) : nodes[i].closed /\ EveryTagClosed(nodes[i].children)

NoVoidClosed(s) ==
    \A i \in 1..Len(HtmlTokens(s, 1)) :
        HtmlTokens(s, 1)[i].t = "close" => HtmlTokens(s, 1)[i].tag \notin VOID_ELEMENTS

\* C4: template_with_closing_tags holds everything template holds (tags,
\* attributes, text, markers, nested output), every non-void tag closed and no
\* void tag closed.
ClosingTagsSuperset ==
    Done =>
        /\ WithoutClosingTags(result.template_with_closing_tags)
               = WithoutClosingTags(result.template)
        /\ EveryTagClosed(Dom)
        /\ NoVoidClosed(result.template_with_closing_tags)

RECURSIVE HasDynamicChild(_)
HasDynamicChild(children) ==
    \E i \in 1..Len(children) :
        \/ children[i].kind = "ExpressionContainer"
        \/ children[i].kind = "Element" /\ is_component(get_tag_name(children[i]))
        \/ children[i].kind = "Fragment" /\ HasDynamicChild(children[i].children)

\* The children with fragments flattened, whitespace-only text and empty
\* expression containers dropped.
RECURSIVE FlatChildren(_)
FlatChildren(children) ==
    IF children = <<>> THEN <<>>
    ELSE LET c == Head(children)
         IN (CASE c.kind = "Fragment" -> FlatChildren(c.children)
               [] c.kind = "Text" ->
                    IF trim_whitespace(c.value) = <<>> THEN <<>> ELSE <<c>>
               [] c.kind = "ExpressionContainer" ->
                    IF c.expression.kind = "EmptyExpression" THEN <<>> ELSE <<c>>
               [] OTHER -> <<c>>)
            \o FlatChildren(Tail(children))

InsertsInto(r, parent) ==
    {i \in 1..Len(r.exprs) : starts_with(r.exprs[i].code, <<"i","n","s","e","r","t","(">> \o parent \o <<","," ">>)}
IsThreeArgument(r, i) ==
    \E d \in 1..Len(r.declarations) : IsMarkerInsert(r.exprs[i].code, r.declarations[d].name)

\* C5: when the flattened children of an element with an id are one
\* expression container and nothing else, there is one two-argument insert, no
\* `<!>` and no marker declaration; with any other content every insert into
\* the element has the three-argument marker form.
SingleDynamicInsert ==
    (Done /\ result.id.some) =>
        IF Len(FlatChildren(element.children)) = 1
              /\ FlatChildren(element.children)[1].kind = "ExpressionContainer"
        THEN /\ Cardinality(InsertsInto(result, result.id.v)) = 1
             /\ \A i \in InsertsInto(result, result.id.v) : ~IsThreeArgument(result, i)
             /\ ~contains(result.template, <<"<","!",">">>)
             /\ MarkerDeclarations(result) = {}
        ELSE \A i \in InsertsInto(result, result.id.v) : IsThreeArgument(result, i)

\* C6: after any prefix of the children, node_index is the number of child
\* nodes the template emitted so far parses into.
NodeIndexCountsDomNodes ==
    pc = "children" =>
        node_index = Len(ParseHtml(result.template)[1].children)

\* The tree without its whitespace-only text, at every depth.
RECURSIVE WithoutBlankText(_)
WithoutBlankText(children) ==
    IF children = <<>> THEN <<>>
    ELSE LET c == Head(children)
         IN (CASE c.kind = "Text" ->
                    IF trim_whitespace(c.value) = <<>> THEN <<>> ELSE <<c>>
               [] c.kind \in {"Fragment", "Element"} ->
                    <<[c EXCEPT !.children = WithoutBlankText(@)]>>
               [] OTHER -> <<c>>)
            \o WithoutBlankText(Tail(children))

\* The walk over the first n children of e, from a fresh BlockContext.
WalkOfPrefix(e, children, n) ==
    transform_children_list(
        SubSeq(children, 1, n),
        children_start(open_element(e, get_tag_name(e), info, NewBlockContext, options)),
        children_info(open_element(e, get_tag_name(e), info, NewBlockContext, options).result,
                      info),
        options, is_single_dynamic_child(e.children))

\* C7: whitespace-only text changes nothing: after any prefix of the children
\* the result, node_index and last_was_text are those of the same children
\* without their whitespace-only text (directly or inside fragments).
WhitespaceTextChangesNothing ==
    (pc = "children" /\ runs = 1) =>
        Walk = WalkOfPrefix([element EXCEPT !.children = WithoutBlankText(@)],
                            WithoutBlankText(SubSeq(element.children, 1, pos - 1)),
                            Len(WithoutBlankText(SubSeq(element.children, 1, pos - 1))))

BlankTextAt(i) ==
    /\ i \in 1..Len(element.children)
    /\ element.children[i].kind = "Text"
    /\ trim_whitespace(element.children[i].value) = <<>>

\* A whitespace-only text child has been walked between two texts.
WhitespaceTextWalked ==
    /\ pc = "children" /\ runs = 1 /\ pos = 4
    /\ BlankTextAt(2) /\ element.children[1] = text_a /\ element.children[3] = text_a
    /\ node_index = 1 /\ last_was_text

\* The element has one attribute, an event attribute.
OneEventAttribute ==
    /\ Len(element.attributes) = 1
    /\ element.attributes[1].kind = "Attribute"
    /\ starts_with(get_attr_name(element.attributes[1].name), <<"o","n">>)

EventKey == get_attr_name(element.attributes[1].name)
EventCapture == ends_with(EventKey, <<"C","a","p","t","u","r","e">>)
EventName ==
    to_event_name(IF EventCapture THEN SubSeq(EventKey, 1, Len(EventKey) - 7) ELSE EventKey)
EventDelegated ==
    /\ ~starts_with(EventKey, <<"o","n",":">>)
    /\ ~EventCapture
    /\ options.delegate_events
    /\ EventName \in DELEGATED_EVENTS \cup options.delegated_events

\* What the handler of the one event attribute must leave behind.
EventStep ==
    (pc = "start" /\ info.top_level /\ ~info.skip_id /\ OneEventAttribute) =>
        /\ result'.template = <<"<">> \o get_tag_name(element) \o <<">">>
        /\ result'.template_with_closing_tags = result'.template
        /\ IF EventDelegated
           THEN /\ result'.exprs = <<Expr(result'.id.v \o <<".","$","$">> \o EventName \o <<" ","="," ">>
                                            \o handler_of(element.attributes[1]))>>
                /\ context'.delegates = context.delegates \cup {EventName}
           ELSE /\ result'.exprs =
                       <<Expr(<<"a","d","d","E","v","e","n","t","L","i","s","t","e","n","e","r","(">> \o result'.id.v \o <<","," ","\"">> \o EventName
                              \o <<"\"",","," ">> \o handler_of(element.attributes[1]) \o <<","," ">>
                              \o bool_to_string(EventCapture) \o <<")">>)>>
                /\ context'.delegates = context.delegates

\* C8: an event attribute is delegated (elem.$$event = handler, the event
\* registered) iff its key has no `on:` prefix and no Capture suffix,
\* delegate_events is on and the event is a delegated one; otherwise one
\* addEventListener with the capture flag is emitted and the delegated set is
\* unchanged; nothing goes to the template. With delegate_events off no step
\* of any transform grows the delegated set.
EventDelegation ==
    [][/\ EventStep
       /\ ~options.delegate_events => context'.delegates = context.delegates]_vars

\* A second transform on the same BlockContext has delegated a click.
ClickDelegated ==
    /\ Done /\ runs = 2 /\ OneEventAttribute /\ EventKey = <<"o","n","C","l","i","c","k">>
    /\ options.delegate_events
    /\ <<"c","l","i","c","k">> \in context.delegates
    /\ \E i \in 1..Len(result.exprs) : contains(result.exprs[i].code, <<".","$","$","c","l","i","c","k"," ","="," ">>)

\* C9: every declared id is mentioned by a statement, a binding or a later
\* declaration.
IdsAreReferenced ==
    Done =>
        \A i \in Declarations :
            \/ result.declarations[i].name \in ReferencedNames(result)
            \/ \E j \in Declarations :
                   j > i /\ result.declarations[i].name
                                \in IdentsOf(result.declarations[j].init, <<>>)

\* C10: with skip_id false no attribute handler aborts for a missing id, and
\* an element with a component or expression-container child has an id.
NoMissingIdAbort ==
    ~info.skip_id =>
        /\ pc # "panic"
        /\ (Done /\ HasDynamicChild(element.children)) => result.id.some

\* The name a declaration's chain starts from.
ChainRoot(r, i) == Head(SplitDots(r.declarations[i].init, <<>>))

\* C11: in a top-level result every declaration's chain starts from the id of
\* the top-level element or from a name declared earlier in the list.
DeclarationsTopological ==
    (Done /\ info.top_level) =>
        \A i \in Declarations :
            \/ result.id = Some(ChainRoot(result, i))
            \/ \E j \in 1..(i - 1) : result.declarations[j].name = ChainRoot(result, i)

\* A marker inside a nested element is declared from that element's name,
\* which is declared before it.
ChainFromEarlierDeclaration ==
    /\ Done /\ info.top_level
    /\ \E i \in Declarations :
           /\ result.id # Some(ChainRoot(result, i))
           /\ \E j \in 1..(i - 1) : result.declarations[j].name = ChainRoot(result, i)

\* The place in the tree a declared name stands for, read off its chain alone:
\* firstChild goes down to child 1, nextSibling moves one to the right.
RECURSIVE StepsPath(_, _)
StepsPath(path, steps) ==
    IF steps = <<>> THEN path
    ELSE StepsPath(IF Head(steps) = <<"f","i","r","s","t","C","h","i","l","d">> THEN Append(path, 1)
                   ELSE IF path = <<>> THEN path
                   ELSE [path EXCEPT ![Len(path)] = @ + 1],
                   Tail(steps))

RECURSIVE PathOfName(_, _, _)
PathOfName(r, name, fuel) ==
    LET decls == {i \in 1..Len(r.declarations) : r.declarations[i].name = name}
    IN IF decls = {} \/ fuel = 0 THEN <<>>
       ELSE LET chain == SplitDots(r.declarations[CHOOSE i \in decls : TRUE].init, <<>>)
            IN StepsPath(PathOfName(r, Head(chain), fuel - 1), Tail(chain))

\* a comes before b in a pre-order walk.
BeforeInWalk(a, b) ==
    \E k \in 1..Len(b) :
        /\ k - 1 <= Len(a)
        /\ SubSeq(a, 1, k - 1) = SubSeq(b, 1, k - 1)
        /\ (k > Len(a) \/ a[k] < b[k])

IsPrefix(s, t) == Len(s) <= Len(t) /\ SubSeq(t, 1, Len(s)) = s

\* The element that carries the attributes: the outermost one, or its one
\* native child when it has no attributes of its own.
Carrier ==
    IF element.attributes = <<>> /\ Len(element.children) = 1
          /\ element.children[1].kind = "Element"
    THEN element.children[1] ELSE element
WithCarrier(c) ==
    IF Carrier = element THEN c ELSE [element EXCEPT !.children = <<c>>]

\* The statements of the call on `e` with a fresh BlockContext.
ExprsOf(e) == transform_element(e, get_tag_name(e), info, NewBlockContext, options).result.exprs

\* The statements attribute a of the carrier accounts for.
OwnExprs(a) ==
    SubSeq(ExprsOf(WithCarrier([Carrier EXCEPT !.attributes = <<a>>])), 1,
           Len(ExprsOf(WithCarrier([Carrier EXCEPT !.attributes = <<a>>])))
               - Len(ExprsOf(WithCarrier([Carrier EXCEPT !.attributes = <<>>]))))

RECURSIVE AttributeExprs(_)
AttributeExprs(attrs) ==
    IF attrs = <<>> THEN <<>> ELSE OwnExprs(Head(attrs)) \o AttributeExprs(Tail(attrs))

DeclarationsInWalkOrder ==
    \A i, j \in Declarations :
        i < j => BeforeInWalk(PathOfName(result, result.declarations[i].name,
                                         Len(result.declarations)),
                              PathOfName(result, result.declarations[j].name,
                                         Len(result.declarations)))

OrderAtEnd ==
    (Done /\ runs = 1) =>
        /\ info.top_level => DeclarationsInWalkOrder
        /\ HasDynamicChild(Carrier.children) =>
               result.exprs = AttributeExprs(Carrier.attributes)
                                  \o ExprsOf(WithCarrier([Carrier EXCEPT !.attributes = <<>>]))
        /\ result = transform_element(element, get_tag_name(element), info,
                                      NewBlockContext, options).result

\* C12: declarations come in pre-order walk order (read off their chains in a
\* top-level call, where every chain starts from a known name); the statements of an
\* element's attributes come in attribute order before those of its children;
\* every child appends its declarations and statements after those of the
\* children before it; a second run on a fresh BlockContext gives the same
\* result.
OutputOrder ==
    /\ []OrderAtEnd
    /\ [][pc = "children" =>
              /\ IsPrefix(result.declarations, result'.declarations)
              /\ IsPrefix(result.exprs, result'.exprs)]_vars

\* Two attributes and a child of a nested element have left three statements
\* and the element's declaration.
ThreeStatementsInOrder ==
    /\ Done /\ runs = 1 /\ Carrier # element
    /\ Len(Carrier.attributes) = 2
    /\ Len(result.exprs) = 3
    /\ Len(result.declarations) = 1
    /\ OwnExprs(Carrier.attributes[1]) = <<result.exprs[1]>>
    /\ OwnExprs(Carrier.attributes[2]) = <<result.exprs[2]>>

\* camelCase as kebab-case: a dash and the lowercase letter for every capital
\* after the first character.
RECURSIVE Kebab(_, _)
Kebab(s, first) ==
    IF s = <<>> THEN <<>>
    ELSE (IF is_uppercase(Head(s))
          THEN (IF first THEN <<>> ELSE <<"-">>) \o <<to_lowercase(Head(s))>>
          ELSE <<Head(s)>>)
         \o Kebab(Tail(s), FALSE)

\* The carrier's one attribute is style={ObjectExpression}.
HasStyleObject ==
    /\ Len(Carrier.attributes) = 1
    /\ Carrier.attributes[1].kind = "Attribute"
    /\ get_attr_name(Carrier.attributes[1].name) = <<"s","t","y","l","e">>
    /\ Carrier.attributes[1].value.some
    /\ Carrier.attributes[1].value.v.kind = "ExpressionContainer"
    /\ Carrier.attributes[1].value.v.expression.kind = "ObjectExpression"
StyleObject == Carrier.attributes[1].value.v.expression

PlainLiteralProperty(p) ==
    /\ p.kind = "ObjectProperty"
    /\ ~p.computed
    /\ p.key.kind \in {"StaticIdentifier", "StringLiteral"}
    /\ p.value.kind \in {"StringLiteral", "NumericLiteral"}
FoldableStyle(obj) ==
    \A i \in 1..Len(obj.properties) : PlainLiteralProperty(obj.properties[i])

StyleKey(p) == IF p.key.kind = "StaticIdentifier" THEN Kebab(p.key.name, TRUE) ELSE p.key.value
StylePair(p) ==
    StyleKey(p) \o <<":"," ">>
        \o (IF p.value.kind = "StringLiteral" THEN p.value.value
            ELSE f64_to_string(p.value.num)
                     \o (IF StyleKey(p) \notin unitless /\ p.value.num # 0
                         THEN <<"p","x">> ELSE <<>>))
FoldedStyle(obj) ==
    join([i \in 1..Len(obj.properties) |-> StylePair(obj.properties[i])], <<";"," ">>)

\* The attributes of the carrier have been transformed.
CarrierWalked ==
    /\ pc \in {"children", "done"}
    /\ Carrier # element => pos > 1

\* C13: a style object of plain properties with literal values is folded into
\* one style attribute of the template (kebab-case keys, px on non-zero
\* numbers of properties that take a unit, pairs joined by `; `) with no
\* statement and no helper; any spread, computed key or non-literal value
\* leaves the template alone and emits the runtime style call.
StyleFolding ==
    (CarrierWalked /\ runs = 1 /\ HasStyleObject) =>
        IF FoldableStyle(StyleObject)
        THEN /\ CountOccurrences(result.template, <<" ","s","t","y","l","e","=","\"">>) = 1
             /\ contains(result.template,
                         <<" ","s","t","y","l","e","=","\"">> \o FoldedStyle(StyleObject) \o <<"\"",">">>)
             /\ result.exprs = <<>>
             /\ context.helpers \cap {<<"s","t","y","l","e">>, <<"e","f","f","e","c","t">>} = {}
        ELSE /\ CountOccurrences(result.template, <<" ","s","t","y","l","e","=">>) = 0
             /\ Len(result.exprs) = 1
             /\ \/ starts_with(result.exprs[1].code, <<"s","t","y","l","e","(">>)
                \/ starts_with(result.exprs[1].code, <<"e","f","f","e","c","t","(","(",")"," ","=",">"," ","s","t","y","l","e","(">>)
             /\ <<"s","t","y","l","e">> \in context.helpers

\* A call, identifier or member access somewhere in e outside the body of a
\* function literal, the computed keys of object literals included.
RECURSIVE HasReactiveRead(_)
HasReactiveRead(e) ==
    CASE e.kind \in {"CallExpression", "Identifier", "StaticMemberExpression",
                     "ComputedMemberExpression"} -> TRUE
      [] e.kind = "UnaryExpression" -> HasReactiveRead(e.argument)
      [] e.kind \in {"BinaryExpression", "LogicalExpression"} ->
            HasReactiveRead(e.left) \/ HasReactiveRead(e.right)
      [] e.kind = "ConditionalExpression" ->
            HasReactiveRead(e.test) \/ HasReactiveRead(e.consequent)
                \/ HasReactiveRead(e.alternate)
      [] e.kind = "ObjectExpression" ->
            \E i \in 1..Len(e.properties) :
                LET p == e.properties[i]
                IN IF p.kind = "SpreadProperty" THEN HasReactiveRead(p.argument)
                   ELSE HasReactiveRead(p.value) \/ (p.computed /\ HasReactiveRead(p.key))
      [] e.kind = "ArrayExpression" ->
            \E i \in 1..Len(e.elements) : HasReactiveRead(e.elements[i])
      [] OTHER -> FALSE

\* The element is <div>{e}</div>, and the expression e.
HasOneExpression ==
    /\ element.attributes = <<>>
    /\ Len(element.children) = 1
    /\ element.children[1].kind = "ExpressionContainer"
    /\ as_expression(element.children[1].expression).some
OneExpression == element.children[1].expression

\* The one statement inserts the expression as a value, not as a getter: the
\* classifier answered false.
InsertedAsValue ==
    /\ Len(result.exprs) = 1
    /\ result.exprs[1].code =
           <<"i","n","s","e","r","t","(">> \o result.id.v \o <<","," ">> \o expr_to_string(OneExpression) \o <<")">>

\* C14: an expression the classifier calls static (it is inserted as a value)
\* holds no call, identifier or member access outside the body of a function
\* literal, the computed keys of its object literals included.
ClassifierConservative ==
    (Done /\ runs = 1 /\ HasOneExpression /\ InsertedAsValue) =>
        ~HasReactiveRead(OneExpression)

\* The runtime helpers a statement can call, and whether `code` calls h: at its
\* head, or at the head of its effect.
RuntimeHelpers ==
    {<<"i","n","s","e","r","t">>, <<"e","f","f","e","c","t">>, <<"s","p","r","e","a","d">>, <<"s","t","y","l","e">>, <<"u","s","e">>, <<"a","d","d","E","v","e","n","t","L","i","s","t","e","n","e","r">>}
CallsHelper(code, h) ==
    \/ starts_with(code, h \o <<"(">>)
    \/ starts_with(code, <<"e","f","f","e","c","t","(","(",")"," ","=",">"," ">> \o h \o <<"(">>)

\* Some child of the list, through fragments and native elements, is an
\* expression or a component whose result holds an expression.
RECURSIVE HasInsertSource(_)
HasInsertSource(children) ==
    \E i \in 1..Len(children) :
        LET child == children[i]
        IN CASE child.kind = "ExpressionContainer" -> as_expression(child.expression).some
             [] child.kind = "Fragment" -> HasInsertSource(child.children)
             [] child.kind = "Element" ->
                   IF is_component(get_tag_name(child))
                   THEN /\ transform_child(child).some
                        /\ transform_child(child).v.exprs # <<>>
                   ELSE HasInsertSource(child.children)
             [] OTHER -> FALSE

\* The children of the outermost element walked so far.
WalkedChildren == SubSeq(element.children, 1, pos - 1)

InnerContentKeys == {<<"i","n","n","e","r","H","T","M","L">>, <<"t","e","x","t","C","o","n","t","e","n","t">>}

\* Some attribute is a spread, is namespaced, is ref, an inner-content key or
\* an on... key, or has an expression-container value.
AttributeNeedsAccess(a) ==
    \/ a.kind = "SpreadAttribute"
    \/ /\ a.kind = "Attribute"
       /\ \/ a.name.kind = "NamespacedName"
          \/ a.name.name = <<"r","e","f">>
          \/ a.name.name \in InnerContentKeys
          \/ starts_with(a.name.name, <<"o","n">>) /\ Len(a.name.name) > 2
          \/ a.value.some /\ a.value.v.kind = "ExpressionContainer"

\* Some child, through fragments, is a component element or an expression container.
RECURSIVE ChildNeedsAccess(_)
ChildNeedsAccess(children) ==
    \E i \in 1..Len(children) :
        LET child == children[i]
        IN CASE child.kind = "ExpressionContainer" -> TRUE
             [] child.kind = "Element" -> is_component(get_tag_name(child))
             [] child.kind = "Fragment" -> ChildNeedsAccess(child.children)
             [] OTHER -> FALSE

RuntimeAccessNeeded(e) ==
    \/ \E i \in 1..Len(e.attributes) : AttributeNeedsAccess(e.attributes[i])
    \/ ChildNeedsAccess(e.children)

\* The indices of the declarations that walk `chain`.
DeclarationsOf(chain) == {i \in Declarations : result.declarations[i].init = chain}

\* The outermost element has an id exactly when the rule says so, and its
\* declaration is the walk from the root of the call.
OutermostId ==
    LET issued == ~info.skip_id /\ (info.top_level \/ RuntimeAccessNeeded(element))
        chain == join(<<info.root_id.v>> \o info.path, <<".">>)
    IN /\ result.id.some <=> issued
       /\ IF issued /\ info.path # <<>> /\ info.root_id.some
          THEN /\ DeclarationsOf(chain) = {1}
               /\ result.declarations[1].name = result.id.v
          ELSE info.root_id.some => DeclarationsOf(chain) = {}

\* The one native child of the attribute-less top-level element.
NestedCarrier ==
    /\ Carrier # element
    /\ ~is_component(get_tag_name(Carrier))
    /\ info = TopInfo

\* The nested element is declared as the first child of the top-level element
\* exactly when it needs runtime access.
NestedId ==
    LET chain == result.id.v \o <<".","f","i","r","s","t","C","h","i","l","d">>
    IN IF RuntimeAccessNeeded(Carrier)
       THEN Cardinality(DeclarationsOf(chain)) = 1
       ELSE DeclarationsOf(chain) = {}

\* C16: an element gets an id exactly when skip_id is false and it is top-level
\* or needs runtime access (an attribute that is a spread, namespaced, ref, an
\* inner-content key, an on... key or an expression container; or a component
\* or expression child through fragments); with an id, a path and a root it
\* gets exactly one declaration, the walk from the root, and without an id none.
IdIssuance ==
    (pc \in {"children", "done"} /\ runs = 1) =>
        /\ OutermostId
        /\ (NestedCarrier /\ CarrierWalked) => NestedId

\* The carrier has the one attribute ref={e}; the expression e.
HasRefExpression ==
    /\ Len(Carrier.attributes) = 1
    /\ Carrier.attributes[1].kind = "Attribute"
    /\ get_attr_name(Carrier.attributes[1].name) = <<"r","e","f">>
    /\ Carrier.attributes[1].value.some
    /\ Carrier.attributes[1].value.v.kind = "ExpressionContainer"
    /\ as_expression(Carrier.attributes[1].value.v.expression).some
RefExpression == Carrier.attributes[1].value.v.expression

\* The id of the carrier: that of the result, or the name declared for the
\* first child of the top-level element.
CarrierId ==
    IF Carrier = element THEN result.id.v
    ELSE result.declarations[CHOOSE i \in Declarations :
             result.declarations[i].init = result.id.v \o <<".","f","i","r","s","t","C","h","i","l","d">>].name

DirectCall(e, id) == <<"(">> \o expr_to_string(e) \o <<")","(">> \o id \o <<")">>
RuntimeDispatch(e, id) ==
    LET v == expr_to_string(e)
    IN <<"t","y","p","e","o","f"," ">> \o v \o <<" ","=","=","="," ","\"","f","u","n","c","t","i","o","n","\""," ","?"," ">> \o v \o <<"(">> \o id \o <<")"," ",":"," ">>
           \o v \o <<" ","="," ">> \o id

\* C17: ref={e} is emitted as the direct call (e)(elem) exactly when e is a
\* function or arrow-function literal, and as the runtime dispatch on typeof
\* for every other expression.
RefForm ==
    (CarrierWalked /\ runs = 1 /\ HasRefExpression) =>
        /\ Len(result.exprs) = 1
        /\ result.exprs[1].code =
               IF RefExpression.kind \in {"ArrowFunctionExpression", "FunctionExpression"}
               THEN DirectCall(RefExpression, CarrierId)
               ELSE RuntimeDispatch(RefExpression, CarrierId)

\* The carrier has one attribute, innerHTML or textContent, with a value.
HasInnerContent ==
    /\ Len(Carrier.attributes) = 1
    /\ Carrier.attributes[1].kind = "Attribute"
    /\ get_attr_name(Carrier.attributes[1].name) \in InnerContentKeys
    /\ Carrier.attributes[1].value.some
InnerKey == get_attr_name(Carrier.attributes[1].name)
InnerValue == Carrier.attributes[1].value.v

\* The template of the call when the carrier has no attribute.
TemplateWithoutAttributes ==
    LET e == WithCarrier([Carrier EXCEPT !.attributes = <<>>])
    IN transform_element(e, get_tag_name(e), info, NewBlockContext, options).result.template

\* What an inner-content attribute with a string-literal value leaves behind.
InnerLiteral(key, s) ==
    IF key = <<"i","n","n","e","r","H","T","M","L">>
    THEN /\ Len(result.exprs) = 1
         /\ starts_with(result.exprs[1].code, CarrierId \o <<".","i","n","n","e","r","H","T","M","L"," ","="," ">>)
         /\ Done => result.template = TemplateWithoutAttributes
    ELSE get_tag_name(Carrier) \notin VOID_ELEMENTS =>
             contains(result.template,
                      <<"<">> \o get_tag_name(Carrier) \o <<">">> \o escape_html(s, FALSE))

\* What an inner-content attribute with an expression value leaves behind.
InnerExpression(key, e) ==
    LET assignment == CarrierId \o <<".">> \o key \o <<" ","="," ">> \o expr_to_string(e)
    IN /\ Len(result.exprs) = 1
       /\ result.exprs[1].code =
              IF is_dynamic(e) THEN <<"e","f","f","e","c","t","(","(",")"," ","=",">"," ">> \o assignment \o <<")">> ELSE assignment
       /\ <<"e","f","f","e","c","t">> \in context.helpers <=> is_dynamic(e)

\* C18: a literal innerHTML is one runtime assignment and nothing in the
\* template; a literal textContent is text of the element in the template; an
\* expression value of either key is one assignment, inside an effect (with
\* `effect` registered) exactly when the expression is dynamic.
InnerContent ==
    (CarrierWalked /\ runs = 1 /\ HasInnerContent) =>
        CASE InnerValue.kind = "StringLiteral" -> InnerLiteral(InnerKey, InnerValue.value)
          [] InnerValue.kind = "ExpressionContainer"
                /\ as_expression(InnerValue.expression).some ->
                InnerExpression(InnerKey, InnerValue.expression)
          [] OTHER -> TRUE

\* The child lists got from `children` by putting the children of one
\* fragment, at any depth, in the place of the fragment.
RECURSIVE Unwrapped(_)
Unwrapped(children) ==
    UNION {LET child == children[i]
               before == SubSeq(children, 1, i - 1)
               after == SubSeq(children, i + 1, Len(children))
               inside == IF child.kind = "Fragment"
                            \/ (child.kind = "Element" /\ ~is_component(get_tag_name(child)))
                         THEN {before \o <<[child EXCEPT !.children = c]>> \o after :
                                  c \in Unwrapped(child.children)}
                         ELSE {}
           IN IF child.kind = "Fragment"
              THEN {before \o child.children \o after} \cup inside
              ELSE inside :
           i \in 1..Len(children)}

\* The whole child walk of the outermost element with the children c, on a
\* fresh BlockContext.
WalkOfChildren(c) ==
    LET st == open_element(element, get_tag_name(element), info, NewBlockContext, options)
    IN transform_children_list(c, children_start(st), children_info(st.result, info),
                               options, is_single_dynamic_child(c))

\* The finished call leaves what the call with the children c leaves.
SameAsWith(c) ==
    LET w == WalkOfChildren(c)
    IN /\ close_unless_panic(end_walk(w), get_tag_name(element)).result = result
       /\ w.context.helpers = context.helpers
       /\ w.node_index = node_index
       /\ w.last_was_text = last_was_text
       /\ is_single_dynamic_child(c) = single_dynamic

\* C19: putting the children of a fragment (empty and blank ones included, at
\* any depth) in the place of the fragment changes neither the result, nor the
\* helpers, nor node_index and last_was_text after the walk, nor the
\* single-dynamic decision.
FragmentsTransparent ==
    (Done /\ runs = 1) => \A c \in Unwrapped(element.children) : SameAsWith(c)

\* The attribute's handler works on the element id: a spread, ref, an event,
\* a namespaced directive, inner content, or an expression value of a plain
\* attribute.
RequiresId(a) ==
    \/ a.kind = "SpreadAttribute"
    \/ /\ a.kind = "Attribute"
       /\ \/ a.name.kind = "NamespacedName"
          \/ a.name.name = <<"r","e","f">>
          \/ a.name.name \in InnerContentKeys
          \/ starts_with(a.name.name, <<"o","n">>) /\ Len(a.name.name) > 2
          \/ /\ a.name.name # <<"s","t","y","l","e">>
             /\ a.value.some
             /\ a.value.v.kind = "ExpressionContainer"
             /\ as_expression(a.value.v.expression).some

\* Some native element of the list, at any depth, has an attribute that
\* requires an id.
RECURSIVE SubtreeRequiresId(_)
SubtreeRequiresId(children) ==
    \E i \in 1..Len(children) :
        LET child == children[i]
        IN CASE child.kind = "Fragment" -> SubtreeRequiresId(child.children)
             [] child.kind = "Element" ->
                   /\ ~is_component(get_tag_name(child))
                   /\ \/ \E j \in 1..Len(child.attributes) : RequiresId(child.attributes[j])
                      \/ SubtreeRequiresId(child.children)
             [] OTHER -> FALSE

\* Some native element of the list, at any depth, has an expression or a
\* component child.
RECURSIVE HasNestedDynamicChild(_)
HasNestedDynamicChild(children) ==
    \E i \in 1..Len(children) :
        LET child == children[i]
        IN /\ child.kind = "Element"
           /\ ~is_component(get_tag_name(child))
           /\ \/ ChildNeedsAccess(child.children)
              \/ HasNestedDynamicChild(child.children)

\* No token is a `<!>` marker.
NoMarker(tokens) == \A k \in 1..Len(tokens) : tokens[k].t # "comment"

\* C20: in a call with skip_id true no element of the subtree gets an id (no
\* uid is issued at all), nothing is declared, expression and component
\* children are dropped without an insert or a marker, and the call does not
\* get past an attribute, its own or a descendant's, that requires an id.
SkipIdInherited ==
    (info.skip_id /\ runs = 1) =>
        /\ ~result.id.some
        /\ context.uid = 0
        /\ result.declarations = <<>>
        /\ result.exprs = <<>>
        /\ <<"i","n","s","e","r","t">> \notin context.helpers
        /\ NoMarker(HtmlTokens(result.template, 1))
        /\ pc \in {"children", "done"} =>
               /\ ~\E j \in 1..Len(element.attributes) : RequiresId(element.attributes[j])
               /\ ~SubtreeRequiresId(WalkedChildren)

\* A call with skip_id true finished on an element whose native child holds an
\* expression or a component.
SkippedNestedDynamicChild ==
    /\ Done
    /\ info.skip_id
    /\ runs = 1
    /\ HasNestedDynamicChild(element.children)
    /\ ChildNeedsAccess(element.children)

\* Some child of the list, directly or inside fragments, is a component element.
RECURSIVE HasComponentChild(_)
HasComponentChild(children) ==
    \E i \in 1..Len(children) :
        LET child == children[i]
        IN CASE child.kind = "Element" -> is_component(get_tag_name(child))
             [] child.kind = "Fragment" -> HasComponentChild(child.children)
             [] OTHER -> FALSE

\* The statements that insert a component, and the first statements of the
\* results of the components of the list, at any depth, in walk order.
ComponentInserts ==
    {i \in 1..Len(result.exprs) :
        /\ starts_with(result.exprs[i].code, <<"i","n","s","e","r","t","(">>)
        /\ contains(result.exprs[i].code, <<","," ","c","r","e","a","t","e","C","o","m","p","o","n","e","n","t","(">>)}
RECURSIVE ComponentCalls(_)
ComponentCalls(children) ==
    IF children = <<>> THEN <<>>
    ELSE LET child == Head(children)
             own == CASE child.kind = "Fragment" -> ComponentCalls(child.children)
                      [] child.kind = "Element" ->
                            IF ~is_component(get_tag_name(child))
                            THEN ComponentCalls(child.children)
                            ELSE IF transform_child(child).some
                                    /\ transform_child(child).v.exprs # <<>>
                            THEN <<transform_child(child).v.exprs[1].code>>
                            ELSE <<>>
                      [] OTHER -> <<>>
         IN own \o ComponentCalls(Tail(children))

\* The i-th component insert carries the i-th component call as its value.
RECURSIVE CarriesInOrder(_, _, _)
CarriesInOrder(codes, values, i) ==
    IF values = <<>> THEN \A k \in i..Len(codes) : ~contains(codes[k].code, <<"c","r","e","a","t","e","C","o","m","p","o","n","e","n","t","(">>)
    ELSE /\ \E k \in i..Len(codes) :
               /\ contains(codes[k].code, <<","," ">> \o Head(values) \o <<","," ">>)
               /\ \A m \in i..(k - 1) : ~contains(codes[m].code, <<"c","r","e","a","t","e","C","o","m","p","o","n","e","n","t","(">>)
               /\ CarriesInOrder(codes, Tail(values), k + 1)

\* C21: a component child is always inserted with a marker: while the children
\* of an element with a component child (directly or inside a fragment) are
\* walked the single-dynamic decision is false, every insert of a component
\* has the three-argument form, and only the first statement of a component's
\* result is carried, one insert per component with output.
ComponentInsertHasMarker ==
    /\ (pc \in {"children", "done"} /\ HasComponentChild(element.children)) => ~single_dynamic
    /\ \A i \in ComponentInserts : IsThreeArgument(result, i)
    /\ \A i \in 1..Len(result.exprs) : ~contains(result.exprs[i].code, <<"s","e","c","o","n","d","(",")">>)
    /\ (Done /\ runs = 1 /\ info.top_level /\ ~info.skip_id) =>
           CarriesInOrder(result.exprs, ComponentCalls(element.children), 1)

\* A component with two statements was the only child: one insert, with a marker.
OnlyChildComponentInserted ==
    /\ Done
    /\ runs = 1
    /\ Len(element.children) = 1
    /\ element.children[1].kind = "Element"
    /\ transform_child(element.children[1]).some
    /\ Len(transform_child(element.children[1]).v.exprs) = 2
    /\ Cardinality(ComponentInserts) = 1
    /\ \A i \in ComponentInserts : IsThreeArgument(result, i)

\* The carrier has one attribute whose handler writes source text into the
\* template: a string literal of a plain attribute, of attr:name or of style,
\* or a style object that folds; and that text.
WritesLiteral(a) ==
    /\ a.kind = "Attribute"
    /\ a.value.some
    /\ a.value.v.kind = "StringLiteral"
    /\ LET key == get_attr_name(a.name)
       IN /\ key # <<"r","e","f">>
          /\ key \notin InnerContentKeys
          /\ ~starts_with(key, <<"o","n">>)
          /\ ~starts_with(key, <<"u","s","e",":">>)
          /\ ~starts_with(key, <<"p","r","o","p",":">>)
WritesSourceText ==
    /\ Len(Carrier.attributes) = 1
    /\ \/ WritesLiteral(Carrier.attributes[1])
       \/ HasStyleObject /\ FoldableStyle(StyleObject)
SourceText ==
    IF WritesLiteral(Carrier.attributes[1]) THEN Carrier.attributes[1].value.v.value
    ELSE FoldedStyle(StyleObject)

\* The text between the quotes of the one attribute of the carrier's tag.
RECURSIVE UpToTagEnd(_)
UpToTagEnd(s) ==
    IF s = <<>> THEN <<>>
    ELSE IF Len(s) >= 2 /\ s[1] = "\"" /\ s[2] = ">" THEN <<>>
    ELSE <<Head(s)>> \o UpToTagEnd(Tail(s))
RECURSIVE AfterFirstQuote(_)
AfterFirstQuote(s) ==
    IF s = <<>> THEN <<>>
    ELSE IF Len(s) >= 2 /\ s[1] = "=" /\ s[2] = "\"" THEN SubSeq(s, 3, Len(s))
    ELSE AfterFirstQuote(Tail(s))

\* C22: a source value a handler writes into the template (a string literal of
\* a plain attribute, of attr:name or of style, or a folded style object)
\* stands between the double quotes as escape_html in attribute mode gives it:
\* no `"` or `<` of the value is left in the template.
AttributeValuesEscaped ==
    (CarrierWalked /\ runs = 1 /\ WritesSourceText) =>
        /\ contains(result.template, <<"=","\"">> \o escape_html(SourceText, TRUE) \o <<"\"",">">>)
        /\ \A k \in 1..Len(UpToTagEnd(AfterFirstQuote(result.template))) :
               UpToTagEnd(AfterFirstQuote(result.template))[k] \notin {"\"", "<"}

\* The arguments of the calls of `op` made so far, in call order.
RECURSIVE ArgumentsOf(_, _)
ArgumentsOf(op, cs) ==
    IF cs = <<>> THEN <<>>
    ELSE (IF Head(cs).op = op THEN <<Head(cs).arg>> ELSE <<>>) \o ArgumentsOf(op, Tail(cs))
Called(op, arg) == \E i \in 1..Len(calls) : calls[i] = Call(op, arg)

\* What the accessors answer after the calls made so far.
LintAnswers ==
    /\ diagnostics(lint_context) = ArgumentsOf("report", calls)
    /\ returned.some => returned.v = ArgumentsOf("report", calls)
    /\ \A s \in SymbolIds :
           /\ is_used(lint_context, s) <=> Called("mark_used", s)
           /\ LintContext_is_component(lint_context, s) <=> Called("mark_component", s)
    /\ \A n \in ImportNames : is_solid_import(lint_context, n) <=> Called("register_solid_import", n)

\* What one call leaves alone: report only appends to the diagnostics, every
\* other call leaves them as they are, and a set only grows, by a call of its own.
LintFrame ==
    /\ IsPrefix(lint_context.diagnostics, lint_context'.diagnostics)
    /\ Len(lint_context'.diagnostics) - Len(lint_context.diagnostics)
           = Len(ArgumentsOf("report", calls')) - Len(ArgumentsOf("report", calls))
    /\ lint_context.symbols_used \subseteq lint_context'.symbols_used
    /\ lint_context.component_symbols \subseteq lint_context'.component_symbols
    /\ lint_context.solid_imports \subseteq lint_context'.solid_imports
    /\ (lint_context'.symbols_used # lint_context.symbols_used)
           => (calls' # calls /\ calls'[Len(calls')].op = "mark_used")
    /\ (lint_context'.component_symbols # lint_context.component_symbols)
           => (calls' # calls /\ calls'[Len(calls')].op = "mark_component")
    /\ (lint_context'.solid_imports # lint_context.solid_imports)
           => (calls' # calls /\ calls'[Len(calls')].op = "register_solid_import")

\* C23: after any calls of report, mark_used, mark_component and
\* register_solid_import, diagnostics() and into_diagnostics() give the
\* reported diagnostics in call order; the three other calls leave the
\* diagnostics alone and each only grows its own set, so is_used,
\* is_component and is_solid_import answer true exactly for the arguments of
\* an earlier call.
LintContextFrame == []LintAnswers /\ [][LintFrame]_lint_vars

\* Two different diagnostics were reported around a mark_used call, and
\* into_diagnostics returned them.
TwoReportsReturned ==
    /\ returned.some
    /\ Len(returned.v) = 2
    /\ returned.v[1] # returned.v[2]
    /\ Len(calls) = 3
    /\ calls[2].op = "mark_used"

====
